---- MODULE Spec2Model ----
(***************************************************************************)
(* Walk-forward forecasting and signal-to-trade conversion of              *)
(* convert_trades.py: load_and_prepare_data, create_strategy_features,     *)
(* apply_daily_ml_strategy and convert_to_trades, run in the order of      *)
(* main().                                                                 *)
(*                                                                         *)
(* Conventions.  A timestamp is the number of minutes since                *)
(* 2021-01-01T00:00 and a date the number of days since 2021-01-01; the    *)
(* ISO renderings the code stores are modelled by IsoDateTime / IsoDate.   *)
(* A data frame is a sequence of records.  The pandas row label of a frame *)
(* is 0-based; position p of a sequence carries label p - 1.  Means are    *)
(* exact rationals <<numerator, denominator>> in lowest terms; a standard  *)
(* deviation is kept as its square (the sample variance), the square root  *)
(* being injective on non-negative numbers.  A probability is kept in      *)
(* hundredths.  NaN is the undefined float, 0/0.  Two frames are carried   *)
(* through the feature step: the observation series and a twin of it that  *)
(* differs in one value of one row, so that two runs can be compared.      *)
(***************************************************************************)
EXTENDS Integers, Sequences, FiniteSets, TLC

VARIABLES
    pc,           \* position in main(): "features", "start", "walk", "convert", "done", "crashed"
    df,           \* the loaded observation series
    df_twin,      \* the twin series (one value of one row differs)
    df_ml,        \* the feature frame handed to apply_daily_ml_strategy
    df_ml_twin,   \* the feature frame of the twin series
    unique_days,  \* df_ml['date'].unique()
    i,            \* index of the loop of apply_daily_ml_strategy into unique_days (0-based)
    current_day,  \* the loop's current_day
    train_data,   \* the loop's train_data
    test_data,    \* the loop's test_data, with signal and prob once scored
    trades_list,  \* the frames appended so far
    day_log,      \* per finished iteration: the day, the size of its training set, what was done
    results_df,   \* the concatenated result frame
    trades,       \* the trade records of convert_to_trades
    printed,      \* the lines apply_daily_ml_strategy has printed
    n_samples,    \* the loop's n_samples
    time_weights, \* the loop's time_weights
    table,        \* the rows of table trades of trades.sqlite, in insertion order
    epex,         \* the rows of table epex_12_20_12_13 of trades.sqlite
    requests,     \* number of POST /trades requests the API has handled
    request,      \* the body of the last POST /trades and the clock it was handled at
    response,     \* status and body of the API's last response
    hourly_data,  \* what compute_hourly_pnl of task3_report.py returned last
    hourly_metrics, \* what compute_hourly_metrics of task4_dashboard.py returned last
    pnl_total,    \* what compute_pnl of task1.py returned last
    error,        \* the exception that ended main() in insert_trades_to_db
    strategy_args, \* the arguments of run_strategy of task2_analysis.py
    daily_pnl,    \* run_strategy's daily_pnl
    summary,      \* run_strategy's summary
    fitted,       \* the fits of the classifier so far: its inputs and what it predicted
    first_run     \* the result frame and the trades of an earlier run of main()

\* the variables of the feature step, the walk-forward loop and the converter
walkVars == <<df, df_twin, df_ml, df_ml_twin, unique_days, i, current_day,
              train_data, test_data, trades_list, day_log, results_df,
              printed, n_samples, time_weights>>
\* the variables of the trade store, the API and the reports
storeVars == <<table, epex, requests, request, response, error, hourly_data,
               hourly_metrics, pnl_total>>
\* the variables of run_strategy
strategyVars == <<strategy_args, daily_pnl, summary>>

\* the variables that outlive one run of main()
rerunVars == <<fitted, first_run>>

vars == <<pc, trades, walkVars, storeVars, strategyVars, rerunVars>>

-----------------------------------------------------------------------------
(* Bounds of the explored inputs *)

\* most days that survive the feature step
MaxDays == 35
\* most quarter-hour rows recorded on an ordinary day
MaxRowsPerDay == 4
\* observation values are drawn from 0 .. MaxValue - 1
MaxValue == 5
\* most requests the API handles
MaxRequests == 2
\* most days of a frame handed to run_strategy
MaxPnlDays == 5
\* training sets of MinTrainRows up to MinTrainRows + MaxExtraSamples rows
\* are weighted, and those around MaxExpIndex rows
MaxExtraSamples == 50
\* instants at which the API's clock is read
MaxClock == 1

-----------------------------------------------------------------------------
(* Program constants *)

SlotsPerLagDay == 96
RollingWindow == 96
min_train_days == 30
MinTrainRows == 100
ProgressEvery == 50
HoursPerDay == 24
HTTP_200_OK == 200
HTTP_201_CREATED == 201
HTTP_404_NOT_FOUND == 404
HTTP_409_CONFLICT == 409
HTTP_422_UNPROCESSABLE_ENTITY == 422
LongThreshold == 55
ShortThreshold == 45
position_size == 100
TradeDelayDays == 1
IntradayOffsetHours == 2
\* np.exp(decay * k) with decay = 0.01 is a finite double up to this k, the
\* largest double being about e^709.78, and inf beyond it
MaxExpIndex == 70978
LagDays == <<1, 2, 7>>

\* the undefined float: 0/0
NaN == <<0, 0>>
MinutesPerDay == 24 * 60

-----------------------------------------------------------------------------
(* Arithmetic helpers *)

Abs(x) == IF x < 0 THEN -x ELSE x

RECURSIVE Gcd(_, _)
Gcd(a, b) == IF b = 0 THEN a ELSE Gcd(b, a % b)

\* the rational n / d (d > 0) in lowest terms
Rat(n, d) ==
    LET g == Gcd(Abs(n), d)
    IN  <<n \div g, d \div g>>

RECURSIVE SumRange(_, _, _)
\* sum of f[lo .. hi], halving the range
SumRange(f, lo, hi) ==
    IF lo > hi THEN 0
    ELSE IF lo = hi THEN f[lo]
    ELSE LET mid == (lo + hi) \div 2
         IN  SumRange(f, lo, mid) + SumRange(f, mid + 1, hi)

RECURSIVE SumSqRange(_, _, _)
\* sum of the squares of f[lo .. hi]
SumSqRange(f, lo, hi) ==
    IF lo > hi THEN 0
    ELSE IF lo = hi THEN f[lo] * f[lo]
    ELSE LET mid == (lo + hi) \div 2
         IN  SumSqRange(f, lo, mid) + SumSqRange(f, mid + 1, hi)

\* pandas mean of f[lo .. hi] (lo <= hi)
MeanRange(f, lo, hi) == Rat(SumRange(f, lo, hi), hi - lo + 1)

\* pandas std (ddof = 1) of f[lo .. hi], as its square; NaN for a single value
StdRange(f, lo, hi) ==
    LET n == hi - lo + 1
        s == SumRange(f, lo, hi)
    IN  IF n < 2 THEN NaN
        ELSE Rat(n * SumSqRange(f, lo, hi) - s * s, n * (n - 1))

-----------------------------------------------------------------------------
(* Calendar of 2021 *)

MonthLengths == <<31, 28, 31, 30, 31, 30, 31, 31, 30, 31, 30, 31>>

RECURSIVE MonthOf(_, _)
\* month of day-of-year doy (1-based), searching from month m
MonthOf(doy, m) ==
    IF m = 12 \/ doy <= MonthLengths[m] THEN m
    ELSE MonthOf(doy - MonthLengths[m], m + 1)

RECURSIVE DaysBeforeMonth(_)
DaysBeforeMonth(m) == IF m = 1 THEN 0 ELSE MonthLengths[m - 1] + DaysBeforeMonth(m - 1)

DateOf(ts) == ts \div MinutesPerDay
HourOf(ts) == (ts % MinutesPerDay) \div 60
MinuteOf(ts) == ts % 60
DayOfYear(date) == date + 1
Month(date) == MonthOf(DayOfYear(date), 1)
DayOfMonth(date) == DayOfYear(date) - DaysBeforeMonth(Month(date))
\* Monday = 0; 2021-01-01 is a Friday
DayOfWeek(date) == (date + 4) % 7

\* date.isoformat(): year, month, day
IsoDate(date) == <<2021, Month(date), DayOfMonth(date)>>
\* Timestamp.isoformat() / strftime('%Y%m%d_%H%M%S'): the six fields
IsoDateTime(ts) == IsoDate(DateOf(ts)) \o <<HourOf(ts), MinuteOf(ts), 0>>
\* the instant an ISO rendering denotes
ParseIso(iso) ==
    (DaysBeforeMonth(iso[2]) + iso[3] - 1) * MinutesPerDay + iso[4] * 60 + iso[5]

-----------------------------------------------------------------------------
(* load_and_prepare_data: the observation series *)

\* the rows the longest lag leaves undefined
LagRows == LagDays[3] * SlotsPerLagDay
\* the day of the first row the lags leave defined, when every earlier day
\* has rpd rows
FirstMlDay(rpd) == LagRows \div rpd

\* number of rows before day d: rpd rows a day, but oddRows on the day oddDay
RowsBefore(d, rpd, oddDay, oddRows) ==
    d * rpd + (IF d > oddDay THEN oddRows - rpd ELSE 0)

\* the day and the slot within it of the row with 0-based label k
DayOfRow(k, rpd, oddDay, oddRows) ==
    IF k < oddDay * rpd THEN k \div rpd
    ELSE IF k < oddDay * rpd + oddRows THEN oddDay
    ELSE (k - oddRows + rpd) \div rpd

SlotOfRow(k, rpd, oddDay, oddRows) ==
    k - RowsBefore(DayOfRow(k, rpd, oddDay, oddRows), rpd, oddDay, oddRows)

\* one loaded row: the spreadsheet columns the pipeline reads, and the
\* columns load_and_prepare_data derives
Observation(ts, wind, pv, da, id) ==
    [timestamp |-> ts, wind_da |-> wind, pv_da |-> pv, da_price |-> da,
     id_price_h |-> id, date |-> DateOf(ts), hour |-> HourOf(ts),
     minute |-> MinuteOf(ts), spread |-> id - da]

\* a quarter-hourly series of nDays days, recorded from startHour on each day
LoadedSeries(nDays, rpd, startHour, oddDay, oddRows) ==
    [p \in 1 .. RowsBefore(nDays, rpd, oddDay, oddRows) |->
        LET k == p - 1
            d == DayOfRow(k, rpd, oddDay, oddRows)
            s == SlotOfRow(k, rpd, oddDay, oddRows)
        IN  Observation(d * MinutesPerDay + startHour * 60 + s * 15,
                        k % 3, (k \div 2) % 2,
                        (k * 7 + 1) % MaxValue, (k * 3 + d) % MaxValue)]

\* the row at position p with column col replaced by v, derived columns redone
Mutated(frame, p, col, v) ==
    LET r == [frame[p] EXCEPT ![col] = v]
    IN  [frame EXCEPT ![p] = Observation(r.timestamp, r.wind_da, r.pv_da,
                                         r.da_price, r.id_price_h)]

-----------------------------------------------------------------------------
(* create_strategy_features *)

Column(frame, col) == [p \in 1 .. Len(frame) |-> frame[p][col]]

\* the columns the feature step reads, total_renewable_da among them
Columns(frame) ==
    [da |-> Column(frame, "da_price"),
     id |-> Column(frame, "id_price_h"),
     sp |-> Column(frame, "spread"),
     ren |-> [p \in 1 .. Len(frame) |-> frame[p].wind_da + frame[p].pv_da],
     hour |-> Column(frame, "hour")]

\* a shift that looks n rows ahead
Shift_Ahead(column, p, n) == IF p + n <= Len(column) THEN <<column[p + n], 1>> ELSE NaN

\* Series.shift(n): the value n rows earlier (a float), NaN where there is none
Shift(column, p, n) == IF p - n >= 1 THEN <<column[p - n], 1>> ELSE NaN

\* Series.rolling(window, min_periods=1): the trailing window ending at p
WindowStart(p) == IF p - RollingWindow + 1 > 1 THEN p - RollingWindow + 1 ELSE 1

RECURSIVE HourSum(_, _, _, _, _)
\* sum of column[lo .. hi] over the rows of hour h
HourSum(column, hour, h, lo, hi) ==
    IF lo > hi THEN 0
    ELSE IF lo = hi THEN (IF hour[lo] = h THEN column[lo] ELSE 0)
    ELSE LET mid == (lo + hi) \div 2
         IN  HourSum(column, hour, h, lo, mid) + HourSum(column, hour, h, mid + 1, hi)

RECURSIVE HourSumSq(_, _, _, _, _)
HourSumSq(column, hour, h, lo, hi) ==
    IF lo > hi THEN 0
    ELSE IF lo = hi THEN (IF hour[lo] = h THEN column[lo] * column[lo] ELSE 0)
    ELSE LET mid == (lo + hi) \div 2
         IN  HourSumSq(column, hour, h, lo, mid) + HourSumSq(column, hour, h, mid + 1, hi)

RECURSIVE HourCount(_, _, _, _)
HourCount(hour, h, lo, hi) ==
    IF lo > hi THEN 0
    ELSE IF lo = hi THEN (IF hour[lo] = h THEN 1 ELSE 0)
    ELSE LET mid == (lo + hi) \div 2
         IN  HourCount(hour, h, lo, mid) + HourCount(hour, h, mid + 1, hi)

\* mean and std (as its square, ddof = 1) of a column over the rows of hour h
HourMean(column, hour, h) ==
    Rat(HourSum(column, hour, h, 1, Len(hour)), HourCount(hour, h, 1, Len(hour)))

HourStd(column, hour, h) ==
    LET n == HourCount(hour, h, 1, Len(hour))
        s == HourSum(column, hour, h, 1, Len(hour))
    IN  IF n < 2 THEN NaN
        ELSE Rat(n * HourSumSq(column, hour, h, 1, Len(hour)) - s * s, n * (n - 1))

\* groupby('hour').agg(...): one row of statistics per hour of the whole frame
HourlyStats(cols) ==
    [h \in {cols.hour[p] : p \in 1 .. Len(cols.hour)} |->
        [da_price_hour_mean |-> HourMean(cols.da, cols.hour, h),
         da_price_hour_std |-> HourStd(cols.da, cols.hour, h),
         id_price_hour_mean |-> HourMean(cols.id, cols.hour, h),
         id_price_hour_std |-> HourStd(cols.id, cols.hour, h),
         spread_hour_mean |-> HourMean(cols.sp, cols.hour, h)]]

\* the columns of the row at position p after the feature step
FeatureRow(frame, cols, stats, p) ==
    LET r == frame[p]
        lo == WindowStart(p)
    IN  [label |-> p - 1,
         timestamp |-> r.timestamp, date |-> r.date, hour |-> r.hour,
         minute |-> r.minute, wind_da |-> r.wind_da, pv_da |-> r.pv_da,
         da_price |-> r.da_price, id_price_h |-> r.id_price_h,
         spread |-> r.spread,
         day_of_week |-> DayOfWeek(r.date),
         is_weekend |-> IF DayOfWeek(r.date) >= 5 THEN 1 ELSE 0,
         month |-> Month(r.date),
         day_of_year |-> DayOfYear(r.date),
         total_renewable_da |-> cols.ren[p],
         da_price_lag |-> [l \in 1 .. 3 |-> Shift(cols.da, p, LagDays[l] * SlotsPerLagDay)],
         id_price_lag |-> [l \in 1 .. 3 |-> Shift(cols.id, p, LagDays[l] * SlotsPerLagDay)],
         spread_lag |-> [l \in 1 .. 3 |-> Shift(cols.sp, p, LagDays[l] * SlotsPerLagDay)],
         renewable_lag |-> [l \in 1 .. 3 |-> Shift(cols.ren, p, LagDays[l] * SlotsPerLagDay)],
         da_price_mean_24h |-> MeanRange(cols.da, lo, p),
         da_price_std_24h |-> StdRange(cols.da, lo, p),
         id_price_mean_24h |-> MeanRange(cols.id, lo, p),
         spread_mean_24h |-> MeanRange(cols.sp, lo, p),
         renewable_mean_24h |-> MeanRange(cols.ren, lo, p),
         da_price_hour_mean |-> stats[r.hour].da_price_hour_mean,
         da_price_hour_std |-> stats[r.hour].da_price_hour_std,
         id_price_hour_mean |-> stats[r.hour].id_price_hour_mean,
         id_price_hour_std |-> stats[r.hour].id_price_hour_std,
         spread_hour_mean |-> stats[r.hour].spread_hour_mean]

\* dropna(): whether the row at position p has an undefined column.  The
\* lag columns are looked at first; a row they remove is removed whatever
\* its other columns hold.
HasNaN(cols, stats, p) ==
    \/ \E l \in 1 .. 3 : Shift(cols.da, p, LagDays[l] * SlotsPerLagDay) = NaN
    \/ StdRange(cols.da, WindowStart(p), p) = NaN
    \/ stats[cols.hour[p]].da_price_hour_std = NaN
    \/ stats[cols.hour[p]].id_price_hour_std = NaN

RECURSIVE KeptPositions(_, _, _, _)
\* the positions lo .. hi that dropna() keeps, in order
KeptPositions(cols, stats, lo, hi) ==
    IF lo > hi THEN <<>>
    ELSE IF lo = hi THEN (IF HasNaN(cols, stats, lo) THEN <<>> ELSE <<lo>>)
    ELSE LET mid == (lo + hi) \div 2
         IN  KeptPositions(cols, stats, lo, mid) \o KeptPositions(cols, stats, mid + 1, hi)

\* the frame after dropna(); the columns, the hourly statistics and the kept
\* positions are each computed once and bound
create_strategy_features(frame) ==
    CHOOSE out \in
        { [q \in 1 .. Len(kept) |-> FeatureRow(frame, cols, stats, kept[q])] :
            kept \in { k \in { KeptPositions(cols, stats, 1, Len(frame)) :
                                  cols \in {Columns(frame)},
                                  stats \in {HourlyStats(Columns(frame))} } : TRUE },
            cols \in {Columns(frame)},
            stats \in {HourlyStats(Columns(frame))} } : TRUE
-----------------------------------------------------------------------------
(* apply_daily_ml_strategy *)

\* Series.unique(): the distinct values in order of first appearance
Unique(column) ==
    LET firsts == SelectSeq([p \in 1 .. Len(column) |-> p],
                            LAMBDA p : \A q \in 1 .. p - 1 : column[q] # column[p])
    IN  [n \in 1 .. Len(firsts) |-> column[firsts[n]]]

\* the filter with the day itself let in
TrainRows_UpToDay(frame, day) == SelectSeq(frame, LAMBDA r : r.date <= day)

\* a rolling window of the last min_train_days calendar days
TrainRows_Window(frame, day) ==
    SelectSeq(frame, LAMBDA r : r.date < day /\ r.date >= day - min_train_days)

\* df_ml[df_ml['date'] < current_day]
TrainRows(frame, day) == SelectSeq(frame, LAMBDA r : r.date < day)

\* df_ml[df_ml['date'] == current_day]
TestRows(frame, day) == SelectSeq(frame, LAMBDA r : r.date = day)

\* the comparison with the threshold itself counted as too few
TooFewRows_Inclusive(train) == Len(train) <= MinTrainRows

\* whether the iteration takes the first continue
TooFewRows(train) == Len(train) < MinTrainRows

\* the thresholds taken as non-strict
SignalOf_NonStrict(prob) ==
    IF prob <= ShortThreshold THEN -1 ELSE IF prob >= LongThreshold THEN 1 ELSE 0

\* signal = 0; signal[probs > 0.55] = 1; signal[probs < 0.45] = -1
SignalOf(prob) ==
    LET s0 == 0
        s1 == IF prob > LongThreshold THEN 1 ELSE s0
    IN  IF prob < ShortThreshold THEN -1 ELSE s1

\* probabilities (hundredths) a fitted classifier may return
ProbValues == <<44, 45, 50, 55, 56, 57>>
ProbShifts == {0, 2}

\* the vectors predict_proba may return for n rows
ProbVectors(n) ==
    { [j \in 1 .. n |-> ProbValues[((shift + j) % Len(ProbValues)) + 1]] :
        shift \in ProbShifts }

\* test_data with the signal and prob columns set
Scored(test, probs) ==
    [j \in 1 .. Len(test) |->
        [label |-> test[j].label, timestamp |-> test[j].timestamp,
         date |-> test[j].date, hour |-> test[j].hour,
         da_price |-> test[j].da_price, id_price_h |-> test[j].id_price_h,
         spread |-> test[j].spread,
         signal |-> SignalOf(probs[j]), prob |-> probs[j]]]

\* np.exp(decay * k): the double e^(k/100) is kept as its exponent k, which
\* orders the doubles as they are ordered; inf is kept as Infinity
Infinity == MaxExpIndex + 1
Exp(k) == IF k > MaxExpIndex THEN Infinity ELSE k

\* 0.5 + 0.5 * (w - lo) / (hi - lo) for doubles kept by their exponents.  The
\* result 0.5 + 0.5 * (e^w - e^lo) / (e^hi - e^lo) is kept as <<w - lo, hi - lo>>:
\* <<0, d>> is 0.5, <<d, d>> is 1.0, and of two results with one d the one with
\* the smaller first component is the smaller.  A finite double over inf is 0,
\* inf over inf and 0 over 0 are NaN.
Rescale(w, lo, hi) ==
    IF hi = Infinity
    THEN IF w = Infinity THEN NaN ELSE <<0, 1>>
    ELSE IF hi = lo THEN NaN ELSE <<w - lo, hi - lo>>

\* time_weights for n_samples = n: np.arange(n) is 0 .. n - 1, exp is
\* increasing, so min() is the first and max() the last element
TimeWeights(n) ==
    [p \in 1 .. n |-> Rescale(Exp(p - 1), Exp(0), Exp(n - 1))]

\* a continue that ends the loop
Continue_Break(k) == Len(unique_days)

\* continue: the loop goes on with the next index
Continue(k) == k + 1

\* the slice starting one day early
FirstActiveIndex_OneEarly == min_train_days - 1

\* unique_days[min_train_days:] starts at index min_train_days
FirstActiveIndex == min_train_days

StartWalk ==
    /\ pc = "start"
    /\ unique_days' = Unique(Column(df_ml, "date"))
    /\ trades_list' = <<>>
    /\ i' = FirstActiveIndex
    /\ pc' = "walk"
    /\ printed' = Append(printed, [msg |-> "Applying Daily XGBoost ML Strategy...",
                                   args |-> <<>>])
    /\ UNCHANGED <<df, df_twin, df_ml, df_ml_twin, current_day, train_data,
                   test_data, day_log, results_df, trades, n_samples, time_weights>>
    /\ UNCHANGED <<storeVars, strategyVars, rerunVars>>

\* one iteration that ends at the first continue
SkipDay ==
    /\ pc = "walk"
    /\ i < Len(unique_days)
    /\ LET day == unique_days[i + 1]
           train == TrainRows(df_ml, day)
       IN  /\ TooFewRows(train)
           /\ current_day' = day
           /\ train_data' = train
           /\ day_log' = Append(day_log, [day |-> day, n_train |-> Len(train),
                                          done |-> "skipped"])
    /\ i' = Continue(i)
    /\ UNCHANGED <<pc, df, df_twin, df_ml, df_ml_twin, unique_days, test_data,
                   trades_list, results_df, trades, printed, n_samples, time_weights>>
    /\ UNCHANGED <<storeVars, strategyVars, rerunVars>>

\* a classifier fitted without a seed: whatever it predicts may come back
Refit_Unseeded(fits, input, probs) == TRUE

\* XGBClassifier(..., random_state=42).fit(X_train, y_train, sample_weight)
\* and predict_proba(X_test): under the fixed seed the prediction is a
\* function of what the classifier is given, so a fit on an input seen
\* before predicts what it predicted then
Refit(fits, input, probs) == \A f \in fits : f.input = input => f.output = probs

\* one iteration that fits the classifier
ScoreDay ==
    /\ pc = "walk"
    /\ i < Len(unique_days)
    /\ LET day == unique_days[i + 1]
           train == TrainRows(df_ml, day)
           test == TestRows(df_ml, day)
       IN  /\ ~TooFewRows(train)
           /\ current_day' = day
           /\ train_data' = train
           /\ n_samples' = Len(train)
           /\ time_weights' = TimeWeights(Len(train))
           /\ IF Len(test) = 0
              THEN /\ test_data' = test
                   /\ trades_list' = trades_list
                   /\ fitted' = fitted
                   /\ day_log' = Append(day_log, [day |-> day, n_train |-> Len(train),
                                                  done |-> "skipped"])
                   /\ printed' = printed
                   /\ i' = Continue(i)
              ELSE \E probs \in ProbVectors(Len(test)) :
                     /\ Refit(fitted, [train |-> train,
                                       sample_weight |-> TimeWeights(Len(train)),
                                       test |-> test], probs)
                     /\ fitted' = fitted \cup
                                     {[input |-> [train |-> train,
                                                  sample_weight |-> TimeWeights(Len(train)),
                                                  test |-> test],
                                       output |-> probs]}
                     /\ test_data' = Scored(test, probs)
                     /\ trades_list' = Append(trades_list, Scored(test, probs))
                     /\ day_log' = Append(day_log, [day |-> day, n_train |-> Len(train),
                                                    done |-> "scored"])
                     /\ printed' = IF (i - min_train_days) % ProgressEvery = 0
                                   THEN Append(printed,
                                               [msg |-> "Processed day",
                                                args |-> <<i, Len(unique_days), day>>])
                                   ELSE printed
                     /\ i' = i + 1
    /\ UNCHANGED <<pc, df, df_twin, df_ml, df_ml_twin, unique_days, results_df, trades>>
    /\ UNCHANGED <<storeVars, strategyVars, first_run>>

\* df_results[df_results['signal'] != 0]
NonFlat(frame) == SelectSeq(frame, LAMBDA r : r.signal # 0)

RECURSIVE Flatten(_)
Flatten(frames) == IF frames = <<>> THEN <<>> ELSE Head(frames) \o Flatten(Tail(frames))

\* pd.concat(trades_list, ignore_index=True): the rows relabelled 0, 1, ...
Concat(frames) ==
    LET rows == Flatten(frames)
    IN  [p \in 1 .. Len(rows) |-> [rows[p] EXCEPT !.label = p - 1]]

\* the loop is over: pd.concat raises on an empty list
EndWalk ==
    /\ pc = "walk"
    /\ i >= Len(unique_days)
    /\ IF trades_list = <<>>
       THEN pc' = "crashed" /\ results_df' = results_df /\ printed' = printed
       ELSE /\ pc' = "convert"
            /\ results_df' = Concat(trades_list)
            /\ printed' = Append(printed,
                                 [msg |-> "Generated trading signals",
                                  args |-> <<Len(NonFlat(Concat(trades_list)))>>])
    /\ UNCHANGED <<df, df_twin, df_ml, df_ml_twin, unique_days, i, current_day,
                   train_data, test_data, trades_list, day_log, trades,
                   n_samples, time_weights>>
    /\ UNCHANGED <<storeVars, strategyVars, rerunVars>>

-----------------------------------------------------------------------------
(* convert_to_trades *)

strategy_name == "ML_Daily_XGBoost"

\* the decision taken at the observation's own instant
trade_timestamp_NoDelay(row) == row.timestamp

\* timestamp - timedelta(days=1)
trade_timestamp(row) == row.timestamp - TradeDelayDays * MinutesPerDay

\* the intraday leg one hour after the day-ahead leg
intraday_timestamp_OneHour(row) == trade_timestamp(row) + 60

\* trade_timestamp + timedelta(hours=2)
intraday_timestamp(row) == trade_timestamp(row) + IntradayOffsetHours * 60

\* a trade_id without the row-disambiguating suffix
Trade_NoRowSuffix(leg, side, row, ts, price) ==
    [trade_id |-> [text |-> <<"ML", leg>>,
                   stamp |-> IsoDateTime(trade_timestamp(row)),
                   idx |-> <<>>,
                   side |-> <<IF side = "buy" THEN "BUY" ELSE "SELL">>],
     trader_id |-> "strategy_ml_daily",
     delivery_day |-> IsoDate(row.date),
     delivery_hour |-> row.hour,
     quantity |-> position_size,
     price |-> price,
     side |-> side,
     strategy |-> strategy_name,
     timestamp |-> IsoDateTime(ts)]

\* the intraday leg booked on the hour after the row's
Trade_IntradayNextHour(leg, side, row, ts, price) ==
    [trade_id |-> [text |-> <<"ML", leg>>,
                   stamp |-> IsoDateTime(trade_timestamp(row)),
                   idx |-> <<row.label>>,
                   side |-> <<IF side = "buy" THEN "BUY" ELSE "SELL">>],
     trader_id |-> "strategy_ml_daily",
     delivery_day |-> IsoDate(row.date),
     delivery_hour |-> IF leg = "ID" THEN (row.hour + 1) % HoursPerDay ELSE row.hour,
     quantity |-> position_size,
     price |-> price,
     side |-> side,
     strategy |-> strategy_name,
     timestamp |-> IsoDateTime(ts)]

\* one trade record.  A trade_id is kept as the pieces its text is joined from
\* with "_": the leading words (text), the digits of a strftime rendering
\* (stamp), a row label (idx) and a closing word (side); a piece that is absent
\* is the empty sequence.  f"ML_{leg}_{strftime}_{idx}_{SIDE}" has all four.
Trade(leg, side, row, ts, price) ==
    [trade_id |-> [text |-> <<"ML", leg>>,
                   stamp |-> IsoDateTime(trade_timestamp(row)),
                   idx |-> <<row.label>>,
                   side |-> <<IF side = "buy" THEN "BUY" ELSE "SELL">>],
     trader_id |-> "strategy_ml_daily",
     delivery_day |-> IsoDate(row.date),
     delivery_hour |-> row.hour,
     quantity |-> position_size,
     price |-> price,
     side |-> side,
     strategy |-> strategy_name,
     timestamp |-> IsoDateTime(ts)]

\* a short signal that loses its intraday leg
TradesOfRow_ShortOneLeg(row) ==
    IF row.signal = 1
    THEN << Trade("DA", "buy", row, trade_timestamp(row), row.da_price),
            Trade("ID", "sell", row, intraday_timestamp(row), row.id_price_h) >>
    ELSE IF row.signal = -1
    THEN << Trade("DA", "sell", row, trade_timestamp(row), row.da_price) >>
    ELSE <<>>

\* a short signal traded like a long one
TradesOfRow_ShortAsLong(row) ==
    IF row.signal # 0
    THEN << Trade("DA", "buy", row, trade_timestamp(row), row.da_price),
            Trade("ID", "sell", row, intraday_timestamp(row), row.id_price_h) >>
    ELSE <<>>

\* the two legs traded at each other's price
TradesOfRow_PricesSwapped(row) ==
    IF row.signal = 1
    THEN << Trade("DA", "buy", row, trade_timestamp(row), row.id_price_h),
            Trade("ID", "sell", row, intraday_timestamp(row), row.da_price) >>
    ELSE IF row.signal = -1
    THEN << Trade("DA", "sell", row, trade_timestamp(row), row.id_price_h),
            Trade("ID", "buy", row, intraday_timestamp(row), row.da_price) >>
    ELSE <<>>

\* the trades appended for one row of df_trades
TradesOfRow(row) ==
    IF row.signal = 1
    THEN << Trade("DA", "buy", row, trade_timestamp(row), row.da_price),
            Trade("ID", "sell", row, intraday_timestamp(row), row.id_price_h) >>
    ELSE IF row.signal = -1
    THEN << Trade("DA", "sell", row, trade_timestamp(row), row.da_price),
            Trade("ID", "buy", row, intraday_timestamp(row), row.id_price_h) >>
    ELSE <<>>

RECURSIVE TradesOfRows(_)
TradesOfRows(rows) ==
    IF rows = <<>> THEN <<>> ELSE TradesOfRow(Head(rows)) \o TradesOfRows(Tail(rows))

convert_to_trades(df_results) == TradesOfRows(NonFlat(df_results))

ConvertToTrades ==
    /\ pc = "convert"
    /\ trades' = convert_to_trades(results_df)
    /\ pc' = "done"
    /\ UNCHANGED <<walkVars, storeVars, strategyVars, rerunVars>>

-----------------------------------------------------------------------------
(* Inputs and specifications *)

\* hours at which the recorded quarter-hours of a day start
StartHours == {0, 22}
\* rows recorded on an ordinary day
RowsPerDayChoices == 3 .. MaxRowsPerDay
\* the day holding an odd number of rows, and that number: no such day, the
\* first day of the feature frame with one row more, or a later day with a
\* single row
NoOddDay == 2 * 365
OddDays(rpd) == {<<NoOddDay, rpd>>,
                 <<FirstMlDay(rpd), rpd + 1>>,
                 <<FirstMlDay(rpd) + (MinTrainRows - 1) \div rpd, 1>>}
\* days that survive the feature step
DayCounts == {min_train_days, min_train_days + 1, MaxDays - 1, MaxDays}
\* whether the last observation is recorded twice under the timestamp of the
\* one before it
Repeats == BOOLEAN
\* the series with its last row stamped like the row before it
WithRepeat(loaded) ==
    Mutated(loaded, Len(loaded), "timestamp", loaded[Len(loaded) - 1].timestamp)
\* columns of the twin's changed value
TwinColumns == {"da_price", "wind_da"}

\* what is not yet computed when main() starts
Blank ==
    /\ unique_days = <<>>
    /\ i = 0
    /\ current_day = -1
    /\ train_data = <<>>
    /\ test_data = <<>>
    /\ trades_list = <<>>
    /\ day_log = <<>>
    /\ results_df = <<>>
    /\ trades = <<>>
    /\ printed = <<>>
    /\ n_samples = 0
    /\ time_weights = <<>>

\* no earlier run of main()
NoRun == [made |-> FALSE, results_df |-> <<>>, trades |-> <<>>]

\* nothing fitted, no earlier run
RerunBlank ==
    /\ fitted = {}
    /\ first_run = NoRun

\* no POST /trades handled yet
NoRequest == [trade |-> [trade_id |-> <<>>], now |-> -1]

\* no report made yet
NoReport == [trader_id |-> "", delivery_day |-> -1, rows |-> <<>>, hourly |-> <<>>]

\* the store before any program has touched it, no report made
StoreBlank ==
    /\ table = <<>>
    /\ epex = <<>>
    /\ requests = 0
    /\ request = NoRequest
    /\ response = [status |-> 0]
    /\ hourly_data = NoReport
    /\ hourly_metrics = NoReport
    /\ pnl_total = [strategy |-> "", value |-> 0]
    /\ error = ""

\* run_strategy not called
StrategyBlank ==
    /\ strategy_args = [df |-> <<>>, position_mw |-> 0, threshold |-> 0,
                        wind_weight |-> 0, pv_weight |-> 0]
    /\ daily_pnl = <<>>
    /\ summary = [max_drawdown |-> 0]

\* the columns of a feature frame that the loop and the converter read
BaseRow(r, k) ==
    [label |-> k, timestamp |-> r.timestamp, date |-> r.date, hour |-> r.hour,
     da_price |-> r.da_price, id_price_h |-> r.id_price_h, spread |-> r.spread]

\* the rows of a loaded series that the lag columns leave defined
BaseFrame(loaded) ==
    [q \in 1 .. Len(loaded) - LagRows |-> BaseRow(loaded[q + LagRows], q + LagRows - 1)]

\* apply_daily_ml_strategy and convert_to_trades on a feature frame
Init ==
    /\ pc = "start"
    /\ \E nDays \in DayCounts, rpd \in RowsPerDayChoices, startHour \in StartHours :
         \E odd \in OddDays(rpd), repeat \in Repeats :
           \E loaded \in {LoadedSeries(FirstMlDay(rpd) + nDays, rpd, startHour,
                                       odd[1], odd[2])} :
             df_ml = BaseFrame(IF repeat THEN WithRepeat(loaded) ELSE loaded)
    /\ df = <<>>
    /\ df_twin = <<>>
    /\ df_ml_twin = <<>>
    /\ Blank
    /\ StoreBlank
    /\ StrategyBlank
    /\ RerunBlank

Next == StartWalk \/ SkipDay \/ ScoreDay \/ EndWalk \/ ConvertToTrades

Spec == Init /\ [][Next]_vars

\* main() from the loaded series on, run beside the feature step of the twin
CreateStrategyFeatures ==
    /\ pc = "features"
    /\ df_ml' = create_strategy_features(df)
    /\ df_ml_twin' = create_strategy_features(df_twin)
    /\ pc' = "start"
    /\ UNCHANGED <<df, df_twin, unique_days, i, current_day, train_data, test_data,
                   trades_list, day_log, results_df, trades, printed, n_samples,
                   time_weights>>
    /\ UNCHANGED <<storeVars, strategyVars, rerunVars>>

InitMain ==
    /\ pc = "features"
    /\ \E startHour \in StartHours, odd \in OddDays(3), col \in TwinColumns :
         LET loaded == LoadedSeries(FirstMlDay(3) + MaxDays, 3, startHour, odd[1], odd[2])
             last == Len(loaded)
         IN  /\ df = loaded
             /\ df_twin = Mutated(loaded, last, col, (loaded[last][col] + 1) % MaxValue)
    /\ df_ml = <<>>
    /\ df_ml_twin = <<>>
    /\ Blank
    /\ StoreBlank
    /\ StrategyBlank
    /\ RerunBlank

NextMain ==
    CreateStrategyFeatures \/ StartWalk \/ SkipDay \/ ScoreDay \/ EndWalk \/ ConvertToTrades

SpecMain == InitMain /\ [][NextMain]_vars

\* main() run a second time on the same data file: the result frame and
\* the trades of the first run are kept for comparison, everything main()
\* computes starts afresh
RunAgain ==
    /\ pc = "done"
    /\ ~first_run.made
    /\ first_run' = [made |-> TRUE, results_df |-> results_df, trades |-> trades]
    /\ pc' = "features"
    /\ df_ml' = <<>> /\ df_ml_twin' = <<>>
    /\ unique_days' = <<>> /\ i' = 0 /\ current_day' = -1
    /\ train_data' = <<>> /\ test_data' = <<>> /\ trades_list' = <<>>
    /\ day_log' = <<>> /\ results_df' = <<>> /\ trades' = <<>> /\ printed' = <<>>
    /\ n_samples' = 0 /\ time_weights' = <<>>
    /\ UNCHANGED <<df, df_twin, fitted, storeVars, strategyVars>>

NextTwice == NextMain \/ RunAgain

SpecTwice == InitMain /\ [][NextTwice]_vars

-----------------------------------------------------------------------------
(* The time weights of one iteration of apply_daily_ml_strategy, for        *)
(* training sets of the sizes a long series gives                           *)

\* sizes of the training set
SampleCounts ==
    (MinTrainRows .. MinTrainRows + MaxExtraSamples)
        \cup (MaxExpIndex .. MaxExpIndex + 3)

\* n_samples = len(train_data) and the two assignments of time_weights
WeighSamples ==
    /\ pc = "weigh"
    /\ time_weights' = TimeWeights(n_samples)
    /\ pc' = "fit"
    /\ UNCHANGED <<trades, df, df_twin, df_ml, df_ml_twin, unique_days, i, current_day,
                   train_data, test_data, trades_list, day_log, results_df,
                   printed, n_samples>>
    /\ UNCHANGED <<storeVars, strategyVars, rerunVars>>

InitWeights ==
    /\ pc = "weigh"
    /\ n_samples \in SampleCounts
    /\ time_weights = <<>>
    /\ df = <<>> /\ df_twin = <<>> /\ df_ml = <<>> /\ df_ml_twin = <<>>
    /\ unique_days = <<>> /\ i = 0 /\ current_day = -1
    /\ train_data = <<>> /\ test_data = <<>> /\ trades_list = <<>>
    /\ day_log = <<>> /\ results_df = <<>> /\ trades = <<>> /\ printed = <<>>
    /\ StoreBlank
    /\ StrategyBlank
    /\ RerunBlank

NextWeights == WeighSamples

SpecWeights == InitWeights /\ [][NextWeights]_vars

-----------------------------------------------------------------------------
(* The trade store: table trades of trades.sqlite, written by               *)
(* insert_trades_to_db and by the API of task1_api.py                       *)

\* the words of a trader_id between its underscores
Words(trader_id) ==
    IF trader_id = "strategy_ml_daily" THEN <<"strategy", "ml", "daily">>
    ELSE <<trader_id>>

\* an optional field left out of a request: trade_id None, timestamp None
NoId == [text |-> <<>>, stamp |-> <<>>, idx |-> <<>>, side |-> <<>>]
NoTimestamp == -1

\* f"{trader_id}_{timestamp.strftime('%Y%m%d_%H%M%S_%f')}", the clock read to
\* the minute
generate_trade_id(trader_id, timestamp) ==
    [text |-> Words(trader_id), stamp |-> IsoDateTime(timestamp) \o <<0>>,
     idx |-> <<>>, side |-> <<>>]

\* Inputs of the store, the API and the reports

\* the delivery day of the explored trades: 2021-09-15
StoreDay == DaysBeforeMonth(9) + 14
\* instants the API's clock is read at
Clock == { (StoreDay - 1) * MinutesPerDay + 600 + k : k \in 0 .. MaxClock - 1 }

\* a scored row of a result frame
ResultRow(label, hour, signal, da, id) ==
    [label |-> label, timestamp |-> StoreDay * MinutesPerDay + hour * 60,
     date |-> StoreDay, hour |-> hour, da_price |-> da, id_price_h |-> id,
     spread |-> id - da, signal |-> signal,
     prob |-> IF signal = 1 THEN 56 ELSE IF signal = -1 THEN 44 ELSE 50]

\* result frames handed to convert_to_trades: all flat, one long row, a long
\* and a short row of one hour
StoreFrames ==
    { <<ResultRow(0, 5, 0, 3, 4)>>,
      <<ResultRow(0, 5, 1, 3, 4)>>,
      <<ResultRow(0, 5, 1, 3, 4), ResultRow(1, 5, -1, 4, 2)>> }

\* a request body of POST /trades
Request(trade_id, trader_id, hour, quantity, price, side) ==
    [trade_id |-> trade_id, trader_id |-> trader_id, delivery_day |-> StoreDay,
     delivery_hour |-> hour, quantity |-> quantity, price |-> price, side |-> side,
     strategy |-> "manual", timestamp |-> NoTimestamp]

\* the bodies sent: a buy without a trade_id and a sell under a trade_id
\* without a leg marker, both of one hour; a trade whose trade_id holds both
\* leg markers; a trade under the trade_id the
\* converter gives the day-ahead leg of result row 0; a trade of another
\* trader; a side that is neither buy nor sell; a delivery_hour of 24; a
\* negative quantity
TradeRequests ==
    { Request(NoId, "strategy_ml_daily", 0, 10, 50, "buy"),
      Request([text |-> <<"T", "2">>, stamp |-> <<>>, idx |-> <<>>, side |-> <<>>],
              "strategy_ml_daily", 0, 10, 60, "sell"),
      Request([text |-> <<"X", "DA", "ID", "1">>, stamp |-> <<>>, idx |-> <<>>,
               side |-> <<>>], "strategy_ml_daily", HoursPerDay - 1, 10, 50, "buy"),
      Request(Trade("DA", "buy", ResultRow(0, 5, 1, 3, 4), 0, 0).trade_id,
              "strategy_ml_daily", 5, 10, 60, "sell"),
      Request(NoId, "trader1", 0, 10, 60, "sell"),
      Request([text |-> <<"H", "1">>, stamp |-> <<>>, idx |-> <<>>, side |-> <<>>],
              "strategy_ml_daily", 0, 10, 50, "hold"),
      Request([text |-> <<"H", "2">>, stamp |-> <<>>, idx |-> <<>>, side |-> <<>>],
              "strategy_ml_daily", HoursPerDay, 10, 50, "buy"),
      Request([text |-> <<"Q", "1">>, stamp |-> <<>>, idx |-> <<>>, side |-> <<>>],
              "strategy_ml_daily", 7, 0 - 10, 50, "sell") }

\* the trade_ids of DELETE /trades/{trade_id}: one a client has supplied, the
\* one the converter gives the day-ahead leg of result row 0
DeleteIds ==
    { [text |-> <<"T", "2">>, stamp |-> <<>>, idx |-> <<>>, side |-> <<>>],
      Trade("DA", "buy", ResultRow(0, 5, 1, 3, 4), 0, 0).trade_id }

ReportTraders == {"strategy_ml_daily"}
ReportDays == {StoreDay}
ReportStrategies == {"s1", "s3"}

\* contents of table epex_12_20_12_13
EpexTables ==
    { << [quantity |-> 10, price |-> 50, side |-> "buy", strategy |-> "s1"],
         [quantity |-> 10, price |-> 60, side |-> "sell", strategy |-> "s1"],
         [quantity |-> 5, price |-> 20, side |-> "sell", strategy |-> "s2"] >> }

\* a key looked up in the first row only
Stored_FirstRowOnly(rows, trade_id) == rows # <<>> /\ rows[1].trade_id = trade_id

\* PRIMARY KEY: whether a row with the trade_id is stored
Stored(rows, trade_id) == \E k \in 1 .. Len(rows) : rows[k].trade_id = trade_id

\* a batch written with INSERT OR REPLACE
insert_rows_Replace(rows, batch) ==
    [error |-> "",
     rows |-> SelectSeq(rows, LAMBDA r : ~Stored(batch, r.trade_id)) \o batch]

\* the CHECK constraints of table trades
Check(row) ==
    /\ row.side \in {"buy", "sell"}
    /\ row.delivery_hour >= 0 /\ row.delivery_hour <= 23

\* the INSERTs of a batch and the commit: the first INSERT of a trade_id that
\* is stored, or that an earlier trade of the batch carries, or of a row that
\* fails a CHECK, raises sqlite3.IntegrityError, and the uncommitted rows are
\* rolled back
insert_rows(rows, batch) ==
    IF \E k \in 1 .. Len(batch) :
          \/ ~Check(batch[k])
          \/ Stored(rows, batch[k].trade_id)
          \/ \E j \in 1 .. k - 1 : batch[j].trade_id = batch[k].trade_id
    THEN [error |-> "IntegrityError", rows |-> rows]
    ELSE [error |-> "", rows |-> rows \o batch]

\* insert_trades_to_db(trades); SUM over no row is None, which the
\* statistics lines cannot format
InsertTradesToDb ==
    /\ pc = "insert"
    /\ LET done == insert_rows(table, trades)
       IN  /\ table' = done.rows
           /\ IF done.error # ""
              THEN pc' = "crashed" /\ error' = done.error
              ELSE IF done.rows = <<>>
              THEN pc' = "crashed" /\ error' = "TypeError"
              ELSE pc' = "stored" /\ error' = error
    /\ UNCHANGED <<trades, walkVars, strategyVars, rerunVars, epex, requests, request,
                   response, hourly_data, hourly_metrics, pnl_total>>

\* a body that passes every field but delivery_hour
Valid_SideOnly(trade) == trade.side \in {"buy", "sell"}

\* the Trade model: delivery_hour with ge=0, le=23 and side with the pattern
\* ^(buy|sell)$; quantity and price are any float
Valid(trade) ==
    /\ trade.delivery_hour >= 0 /\ trade.delivery_hour <= 23
    /\ trade.side \in {"buy", "sell"}

\* POST /trades: a body the Trade model rejects is answered by the framework
\* before the handler runs
CreateTrade ==
    /\ requests < MaxRequests
    /\ requests' = requests + 1
    /\ \E trade \in TradeRequests, now \in Clock :
         /\ request' = [trade |-> trade, now |-> now]
         /\ IF ~Valid(trade)
            THEN /\ table' = table
                 /\ response' = [status |-> HTTP_422_UNPROCESSABLE_ENTITY]
            ELSE LET timestamp == IF trade.timestamp = NoTimestamp THEN now
                                  ELSE trade.timestamp
                     trade_id == IF trade.trade_id = NoId
                                 THEN generate_trade_id(trade.trader_id, timestamp)
                                 ELSE trade.trade_id
                     row == [trade_id |-> trade_id,
                             trader_id |-> trade.trader_id,
                             delivery_day |-> IsoDate(trade.delivery_day),
                             delivery_hour |-> trade.delivery_hour,
                             quantity |-> trade.quantity,
                             price |-> trade.price,
                             side |-> trade.side,
                             strategy |-> trade.strategy,
                             timestamp |-> IsoDateTime(timestamp)]
                     done == insert_rows(table, <<row>>)
                 IN  IF done.error # ""
                     THEN /\ table' = table
                          /\ response' = [status |-> HTTP_409_CONFLICT]
                     ELSE /\ table' = done.rows
                          /\ response' = [status |-> HTTP_201_CREATED,
                                          trade_id |-> trade_id]
    /\ UNCHANGED <<pc, trades, walkVars, strategyVars, rerunVars, epex, error,
                   hourly_data, hourly_metrics, pnl_total>>

\* DELETE /trades/{trade_id}
DeleteTrade ==
    /\ \E trade_id \in DeleteIds :
         IF Stored(table, trade_id)
         THEN /\ table' = SelectSeq(table, LAMBDA r : r.trade_id # trade_id)
              /\ response' = [status |-> HTTP_200_OK]
         ELSE /\ table' = table
              /\ response' = [status |-> HTTP_404_NOT_FOUND]
    /\ UNCHANGED <<pc, trades, walkVars, strategyVars, rerunVars, epex, error, requests,
                   request, hourly_data, hourly_metrics, pnl_total>>

-----------------------------------------------------------------------------
(* The reports: compute_hourly_pnl (task3_report.py), load_trader_data and  *)
(* compute_hourly_metrics (task4_dashboard.py), compute_pnl (task1.py)      *)

\* '_DA_' in trade_id: the marker stands between two underscores, so it is a
\* leading word other than the first, with something after it
Contains(trade_id, marker) ==
    \E k \in 2 .. Len(trade_id.text) :
        /\ trade_id.text[k] = marker
        /\ \/ k < Len(trade_id.text)
           \/ Len(trade_id.stamp) + Len(trade_id.idx) + Len(trade_id.side) > 0

\* WHERE trader_id = ? AND delivery_day = ?
Selected(rows, trader_id, delivery_day) ==
    SelectSeq(rows, LAMBDA r : r.trader_id = trader_id
                               /\ r.delivery_day = IsoDate(delivery_day))

\* an hour's entry that counts a trade where there is none
ZeroEntry_OneTrade ==
    [num_trades |-> 1, buy_da_mw |-> 0, sell_da_mw |-> 0,
     buy_ida_mw |-> 0, sell_ida_mw |-> 0, pnl_eur |-> 0]

\* the entry every hour starts with
ZeroEntry ==
    [num_trades |-> 0, buy_da_mw |-> 0, sell_da_mw |-> 0,
     buy_ida_mw |-> 0, sell_ida_mw |-> 0, pnl_eur |-> 0]

\* one pass of the loop over the fetched rows
Tally(hour_data, row) ==
    LET is_da == Contains(row.trade_id, "DA")
        is_ida == Contains(row.trade_id, "ID")
        counted == [hour_data EXCEPT !.num_trades = @ + 1]
    IN  IF row.side = "buy"
        THEN LET vol == IF is_da THEN [counted EXCEPT !.buy_da_mw = @ + row.quantity]
                        ELSE IF is_ida
                        THEN [counted EXCEPT !.buy_ida_mw = @ + row.quantity]
                        ELSE counted
             IN  [vol EXCEPT !.pnl_eur = @ - row.quantity * row.price]
        ELSE LET vol == IF is_da THEN [counted EXCEPT !.sell_da_mw = @ + row.quantity]
                        ELSE IF is_ida
                        THEN [counted EXCEPT !.sell_ida_mw = @ + row.quantity]
                        ELSE counted
             IN  [vol EXCEPT !.pnl_eur = @ + row.quantity * row.price]

RECURSIVE TallyAll(_, _)
TallyAll(hourly, rows) ==
    IF rows = <<>> THEN hourly
    ELSE TallyAll([hourly EXCEPT ![Head(rows).delivery_hour] = Tally(@, Head(rows))],
                  Tail(rows))

\* compute_hourly_pnl(trader_id, delivery_day) on the stored rows; the order
\* of the fetched rows does not change a tally
compute_hourly_pnl(rows, trader_id, delivery_day) ==
    TallyAll([hour \in 0 .. HoursPerDay - 1 |-> ZeroEntry],
             Selected(rows, trader_id, delivery_day))

\* load_trader_data(trader_id, delivery_day)
load_trader_data(rows, trader_id, delivery_day) == Selected(rows, trader_id, delivery_day)

\* Series.sum() of a column, and of quantity * price
RECURSIVE SumQuantity(_)
SumQuantity(rows) ==
    IF rows = <<>> THEN 0 ELSE Head(rows).quantity + SumQuantity(Tail(rows))
RECURSIVE SumValue(_)
SumValue(rows) ==
    IF rows = <<>> THEN 0
    ELSE Head(rows).quantity * Head(rows).price + SumValue(Tail(rows))

OnSide(rows, side) == SelectSeq(rows, LAMBDA r : r.side = side)

\* compute_hourly_metrics(df): the columns 'Number of Trades', 'BUY_DA [MW]',
\* ... 'PnL [EUR]' are the fields NumberOfTrades, BUY_DA, ... PnL; the label
\* f"{h:02d}-{h+1:02d}" is the pair <<h, h + 1>>
compute_hourly_metrics(frame) ==
    IF frame = <<>>
    THEN [n \in 1 .. HoursPerDay |->
            [Hour |-> <<n - 1, n>>, NumberOfTrades |-> 0, BUY_DA |-> 0,
             SELL_DA |-> 0, BUY_IDA |-> 0, SELL_IDA |-> 0, PnL |-> 0]]
    ELSE [n \in 1 .. HoursPerDay |->
            LET hour == n - 1
                hour_data == SelectSeq(frame, LAMBDA r : r.delivery_hour = hour)
                da_trades == SelectSeq(hour_data, LAMBDA r : Contains(r.trade_id, "DA"))
                ida_trades == SelectSeq(hour_data, LAMBDA r : Contains(r.trade_id, "ID"))
            IN  [Hour |-> <<hour, hour + 1>>,
                 delivery_hour |-> hour,
                 NumberOfTrades |-> Len(hour_data),
                 BUY_DA |-> SumQuantity(OnSide(da_trades, "buy")),
                 SELL_DA |-> SumQuantity(OnSide(da_trades, "sell")),
                 BUY_IDA |-> SumQuantity(OnSide(ida_trades, "buy")),
                 SELL_IDA |-> SumQuantity(OnSide(ida_trades, "sell")),
                 PnL |-> SumValue(OnSide(hour_data, "sell"))
                           - SumValue(OnSide(hour_data, "buy"))]]

\* a total to which a buy adds and from which a sell takes
RECURSIVE TotalOf_BuyAdds(_)
TotalOf_BuyAdds(rows) ==
    IF rows = <<>> THEN 0
    ELSE (IF Head(rows).side = "sell"
          THEN 0 - Head(rows).quantity * Head(rows).price
          ELSE Head(rows).quantity * Head(rows).price) + TotalOf_BuyAdds(Tail(rows))

\* total += qty * price if side == "sell" else -qty * price
RECURSIVE TotalOf(_)
TotalOf(rows) ==
    IF rows = <<>> THEN 0
    ELSE (IF Head(rows).side = "sell"
          THEN Head(rows).quantity * Head(rows).price
          ELSE 0 - Head(rows).quantity * Head(rows).price) + TotalOf(Tail(rows))

\* compute_pnl(strategy_id) on the rows of epex_12_20_12_13
compute_pnl(rows, strategy_id) ==
    TotalOf(SelectSeq(rows, LAMBDA r : r.strategy = strategy_id))

\* python task3_report.py <trader_id> <delivery_day>; rows keeps what the
\* query fetched
ComputeHourlyPnl ==
    /\ \E trader_id \in ReportTraders, delivery_day \in ReportDays :
         hourly_data' = [trader_id |-> trader_id, delivery_day |-> delivery_day,
                         rows |-> Selected(table, trader_id, delivery_day),
                         hourly |-> compute_hourly_pnl(table, trader_id, delivery_day)]
    /\ UNCHANGED <<pc, trades, walkVars, strategyVars, rerunVars, table, epex, requests,
                   request, response, error, hourly_metrics, pnl_total>>

\* the dashboard for a trader and a day; rows keeps the loaded frame
ComputeHourlyMetrics ==
    /\ \E trader_id \in ReportTraders, delivery_day \in ReportDays :
         LET frame == load_trader_data(table, trader_id, delivery_day)
         IN  hourly_metrics' = [trader_id |-> trader_id, delivery_day |-> delivery_day,
                                rows |-> frame,
                                hourly |-> compute_hourly_metrics(frame)]
    /\ UNCHANGED <<pc, trades, walkVars, strategyVars, rerunVars, table, epex, requests,
                   request, response, error, hourly_data, pnl_total>>

\* GET /v1/pnl/{strategy_id} of task1.py
ComputePnl ==
    /\ \E strategy_id \in ReportStrategies :
         pnl_total' = [strategy |-> strategy_id, value |-> compute_pnl(epex, strategy_id)]
    /\ UNCHANGED <<pc, trades, walkVars, strategyVars, rerunVars, table, epex, requests,
                   request, response, error, hourly_data, hourly_metrics>>

-----------------------------------------------------------------------------
(* The store and the reports: inputs and specification *)

\* main() after convert_to_trades, on the table init_database has created,
\* beside the API and the reports
InitStore ==
    /\ pc = "insert"
    /\ \E frame \in StoreFrames :
         /\ results_df = frame
         /\ trades = convert_to_trades(frame)
    /\ df = <<>> /\ df_twin = <<>> /\ df_ml = <<>> /\ df_ml_twin = <<>>
    /\ unique_days = <<>> /\ i = 0 /\ current_day = -1
    /\ train_data = <<>> /\ test_data = <<>> /\ trades_list = <<>>
    /\ day_log = <<>> /\ printed = <<>> /\ n_samples = 0 /\ time_weights = <<>>
    /\ table = <<>>
    /\ epex \in EpexTables
    /\ requests = 0
    /\ request = NoRequest
    /\ response = [status |-> 0]
    /\ error = ""
    /\ hourly_data = NoReport
    /\ hourly_metrics = NoReport
    /\ pnl_total = [strategy |-> "", value |-> 0]
    /\ StrategyBlank
    /\ RerunBlank

NextStore ==
    InsertTradesToDb \/ CreateTrade \/ ComputeHourlyPnl \/ ComputeHourlyMetrics
        \/ ComputePnl

SpecStore == InitStore /\ [][NextStore]_vars

\* the converter's insert beside the API alone
NextApi == InsertTradesToDb \/ CreateTrade \/ DeleteTrade

SpecApi == InitStore /\ [][NextApi]_vars

-----------------------------------------------------------------------------
(* run_strategy of task2_analysis.py.  The statistics that are ratios       *)
(* (positive_hour_share, daily_mean, daily_std, corr_price_resdelta) are    *)
(* left out of summary.                                                     *)

\* the distinct values of a column, ascending: the keys of a groupby
RECURSIVE Ascending(_)
Ascending(S) ==
    IF S = {} THEN <<>>
    ELSE LET m == CHOOSE m \in S : \A x \in S : m <= x
         IN  <<m>> \o Ascending(S \ {m})

RECURSIVE SumColumn(_, _)
SumColumn(rows, col) ==
    IF rows = <<>> THEN 0 ELSE Head(rows)[col] + SumColumn(Tail(rows), col)

\* the mean of a column of a group; the frames explored keep it whole
GroupMean(rows, col) == SumColumn(rows, col) \div Len(rows)

\* _prepare_hourly: one row for every (date, hour), ordered by date and hour
prepare_hourly(frame) ==
    LET keys == Ascending({ r.date * HoursPerDay + r.hour :
                              r \in { frame[k] : k \in 1 .. Len(frame) } })
    IN  [n \in 1 .. Len(keys) |->
            LET g == SelectSeq(frame,
                               LAMBDA r : r.date * HoursPerDay + r.hour = keys[n])
                wind_delta == GroupMean(g, "wind_id") - GroupMean(g, "wind_da")
                pv_delta == GroupMean(g, "pv_id") - GroupMean(g, "pv_da")
            IN  [date |-> g[1].date, hour |-> g[1].hour,
                 wind_delta |-> wind_delta, pv_delta |-> pv_delta,
                 res_delta |-> wind_delta + pv_delta,
                 price_diff |-> GroupMean(g, "id_price_h") - GroupMean(g, "da_price")]]

\* -1 if x > threshold else (1 if x < -threshold else 0)
PositionOf(x, threshold) ==
    IF x > threshold THEN -1 ELSE IF x < 0 - threshold THEN 1 ELSE 0

\* hourly with the position and pnl columns
WithPnl(hourly, args) ==
    [n \in 1 .. Len(hourly) |->
        LET signal == args.wind_weight * hourly[n].wind_delta
                        + args.pv_weight * hourly[n].pv_delta
            position == PositionOf(signal, args.threshold)
        IN  [date |-> hourly[n].date, hour |-> hourly[n].hour,
             position |-> position,
             pnl |-> position * hourly[n].price_diff * args.position_mw]]

\* hourly.groupby("date")["pnl"].sum()
DailySums(hourly) ==
    LET dates == Ascending({ hourly[n].date : n \in 1 .. Len(hourly) })
    IN  [d \in 1 .. Len(dates) |->
            SumColumn(SelectSeq(hourly, LAMBDA r : r.date = dates[d]), "pnl")]

\* the running sum taken for the series itself
cumsum_Identity(series) == series

\* Series.cumsum()
RECURSIVE SumUpTo(_, _)
SumUpTo(series, t) == IF t = 0 THEN 0 ELSE SumUpTo(series, t - 1) + series[t]
cumsum(series) == [t \in 1 .. Len(series) |-> SumUpTo(series, t)]

RECURSIVE MinUpTo(_, _)
MinUpTo(series, t) ==
    IF t = 1 THEN series[1]
    ELSE LET m == MinUpTo(series, t - 1) IN IF series[t] < m THEN series[t] ELSE m

RECURSIVE MaxUpTo(_, _)
MaxUpTo(series, t) ==
    IF t = 1 THEN series[1]
    ELSE LET m == MaxUpTo(series, t - 1) IN IF series[t] > m THEN series[t] ELSE m

\* the peak of the whole series in place of the peak so far
cummax_WholeSeries(series) == [t \in 1 .. Len(series) |-> MaxUpTo(series, Len(series))]

\* Series.cummax()
cummax(series) == [t \in 1 .. Len(series) |-> MaxUpTo(series, t)]

\* Series.min(), Series.max()
SeriesMin(series) == MinUpTo(series, Len(series))
SeriesMax(series) == MaxUpTo(series, Len(series))

\* (daily_pnl.cumsum() - daily_pnl.cumsum().cummax()).min()
max_drawdown(daily) ==
    LET running == cumsum(daily)
        peak == cummax(running)
    IN  SeriesMin([t \in 1 .. Len(daily) |-> running[t] - peak[t]])

\* a quarter-hour row of the frame handed to run_strategy
Quarter(date, hour, wind_da, wind_id, pv_da, pv_id, da_price, id_price_h) ==
    [date |-> date, hour |-> hour, wind_da |-> wind_da, wind_id |-> wind_id,
     pv_da |-> pv_da, pv_id |-> pv_id, da_price |-> da_price,
     id_price_h |-> id_price_h]

\* the rows of one day, by the day's kind: (1) an hour of two quarter-hours
\* held long while the intraday price is 10 above; (2) an hour held short
\* while it is 5 above; (3) an hour held long while it is 3 above and a flat
\* hour; (4) an hour held long while it is 8 below; (5) an hour held short
\* while it is 20 below
DayRows(date, kind) ==
    IF kind = 1 THEN << Quarter(date, 0, 5, 4, 2, 2, 40, 50),
                        Quarter(date, 0, 7, 6, 2, 2, 42, 52) >>
    ELSE IF kind = 2 THEN << Quarter(date, 3, 5, 5, 1, 3, 40, 45) >>
    ELSE IF kind = 3 THEN << Quarter(date, 1, 5, 3, 2, 3, 40, 43),
                             Quarter(date, 2, 5, 4, 2, 3, 40, 47) >>
    ELSE IF kind = 4 THEN << Quarter(date, 0, 5, 4, 2, 2, 40, 32) >>
    ELSE << Quarter(date, HoursPerDay - 1, 5, 6, 2, 2, 40, 20) >>
DayKinds == 1 .. 5

RECURSIVE FrameOf(_, _)
FrameOf(kinds, d) ==
    IF d = 0 THEN <<>> ELSE FrameOf(kinds, d - 1) \o DayRows(d - 1, kinds[d])

\* position_mw passed to run_strategy: the default and a tenth of it
PositionSizes == {100, 10}

\* run_strategy(df, position_mw) with the other arguments at their defaults
RunStrategy ==
    /\ pc = "strategy"
    /\ LET hourly == WithPnl(prepare_hourly(strategy_args.df), strategy_args)
           daily == DailySums(hourly)
       IN  /\ daily_pnl' = daily
           /\ summary' = [position_mw |-> strategy_args.position_mw,
                          threshold_mw |-> strategy_args.threshold,
                          wind_weight |-> strategy_args.wind_weight,
                          pv_weight |-> strategy_args.pv_weight,
                          total_pnl_eur |-> SumColumn(hourly, "pnl"),
                          max_day |-> SeriesMax(daily),
                          min_day |-> SeriesMin(daily),
                          max_drawdown |-> max_drawdown(daily)]
    /\ pc' = "analysed"
    /\ UNCHANGED <<trades, walkVars, storeVars, strategy_args, rerunVars>>

InitStrategy ==
    /\ pc = "strategy"
    /\ \E n \in 1 .. MaxPnlDays, position_mw \in PositionSizes :
         \E kinds \in [1 .. n -> DayKinds] :
           strategy_args = [df |-> FrameOf(kinds, n), position_mw |-> position_mw,
                            threshold |-> 0, wind_weight |-> 1, pv_weight |-> 1]
    /\ daily_pnl = <<>>
    /\ summary = [max_drawdown |-> 0]
    /\ trades = <<>>
    /\ df = <<>> /\ df_twin = <<>> /\ df_ml = <<>> /\ df_ml_twin = <<>>
    /\ Blank
    /\ StoreBlank
    /\ RerunBlank

NextStrategy == RunStrategy

SpecStrategy == InitStrategy /\ [][NextStrategy]_vars

-----------------------------------------------------------------------------
(* Properties of apply_daily_ml_strategy, checked under Spec *)

\* the rows that received a signal so far
SignalRows ==
    UNION { { <<f, j>> : j \in 1 .. Len(trades_list[f]) } : f \in 1 .. Len(trades_list) }
SignalRow(x) == trades_list[x[1]][x[2]]

\* the distinct days of the feature frame before a day
EarlierDays(day) == { df_ml[q].date : q \in {q \in 1 .. Len(df_ml) : df_ml[q].date < day} }

LastLogged == day_log[Len(day_log)]

(* C1: whenever an iteration has fitted the classifier and scored its day d,
   every row of the training set it used is dated strictly before d, and the
   rows it scored are dated d. *)
C1_TrainingStrictlyBefore ==
    (day_log # <<>> /\ LastLogged.done = "scored") =>
        /\ current_day = LastLogged.day
        /\ \A p \in 1 .. Len(train_data) : train_data[p].date < current_day
        /\ \A j \in 1 .. Len(test_data) : test_data[j].date = current_day

\* a scored day with a full training set while the frame holds later rows too
C1_Witness ==
    /\ day_log # <<>>
    /\ LastLogged.done = "scored"
    /\ Len(train_data) >= 100
    /\ test_data # <<>>
    /\ \E q \in 1 .. Len(df_ml) : df_ml[q].date > current_day

(* C3: every day that receives a signal is preceded by at least 30 distinct
   earlier days of the series. *)
C3_WarmUpGating ==
    \A x \in SignalRows : Cardinality(EarlierDays(SignalRow(x).date)) >= 30

\* a signal on the first day after the warm-up
C3_Witness ==
    \E x \in SignalRows : Cardinality(EarlierDays(SignalRow(x).date)) = 30

(* C4: an iteration is skipped iff its training set has fewer than 100 rows;
   a skipped day has no signal and no trade, a day that is not skipped has
   its signals. *)
C4_SampleSufficiency ==
    \A e \in 1 .. Len(day_log) :
        LET en == day_log[e]
        IN  /\ (en.done = "skipped") <=> (en.n_train < 100)
            /\ (en.done = "skipped") <=>
                   ~ \E x \in SignalRows : SignalRow(x).date = en.day
            /\ (en.done = "skipped" /\ pc = "done") =>
                   \A t \in 1 .. Len(trades) : trades[t].delivery_day # IsoDate(en.day)

\* one run that meets a training set of 99 rows and then one of 100 rows
C4_Witness ==
    /\ \E e \in 1 .. Len(day_log) : day_log[e].n_train = 99 /\ day_log[e].done = "skipped"
    /\ \E e \in 1 .. Len(day_log) : day_log[e].n_train = 100 /\ day_log[e].done = "scored"

(* C5: for every scored row the signal is long iff probability > 0.55, short
   iff probability < 0.45 and flat otherwise, so 0.55 and 0.45 are flat and
   each row has exactly one direction. *)
C5_SignalTrichotomy ==
    \A x \in SignalRows :
        LET r == SignalRow(x)
        IN  /\ r.signal \in {-1, 0, 1}
            /\ (r.signal = 1) <=> (r.prob > 55)
            /\ (r.signal = -1) <=> (r.prob < 45)
            /\ (r.signal = 0) <=> (r.prob >= 45 /\ r.prob <= 55)

\* rows scored at both boundaries and just beyond them
C5_Witness ==
    /\ \E x \in SignalRows : SignalRow(x).prob = 55 /\ SignalRow(x).signal = 0
    /\ \E x \in SignalRows : SignalRow(x).prob = 45 /\ SignalRow(x).signal = 0
    /\ \E x \in SignalRows : SignalRow(x).prob = 56 /\ SignalRow(x).signal = 1
    /\ \E x \in SignalRows : SignalRow(x).prob = 44 /\ SignalRow(x).signal = -1

(* C6: one signal per (date, hour): no two scored rows share their date and
   hour, and the trades of one delivery day and hour are one day-ahead leg
   and one intraday leg at most. *)
C6_OneSignalPerDateHour ==
    /\ \A x, y \in SignalRows :
          (SignalRow(x).date = SignalRow(y).date /\ SignalRow(x).hour = SignalRow(y).hour)
              => x = y
    /\ \A t, u \in 1 .. Len(trades) :
          (/\ trades[t].delivery_day = trades[u].delivery_day
           /\ trades[t].delivery_hour = trades[u].delivery_hour
           /\ trades[t].trade_id.text[2] = trades[u].trade_id.text[2]) => t = u

-----------------------------------------------------------------------------
(* Properties of convert_to_trades, checked under Spec *)

\* the trades made for the result row with a label, by the label in their trade_id
TradesFor(label) == { t \in 1 .. Len(trades) : trades[t].trade_id.idx = <<label>> }
LegOf(t) == trades[t].trade_id.text[2]
\* the result row a trade was made for
RowOf(t) == results_df[trades[t].trade_id.idx[1] + 1]
Opposite(side) == IF side = "buy" THEN "sell" ELSE "buy"

(* C7: two trades for every non-flat row and none for a flat row; the two
   share delivery_day, delivery_hour, strategy and the quantity 100, have
   opposite sides, and are one day-ahead and one intraday leg. *)
C7_TradePairing ==
    pc = "done" =>
        /\ Len(trades) = 2 * Len(NonFlat(results_df))
        /\ \A p \in 1 .. Len(results_df) :
              LET r == results_df[p]
                  T == TradesFor(r.label)
              IN  IF r.signal = 0 THEN T = {}
                  ELSE /\ Cardinality(T) = 2
                       /\ { LegOf(t) : t \in T } = {"DA", "ID"}
                       /\ \A t \in T :
                             /\ trades[t].delivery_day = IsoDate(r.date)
                             /\ trades[t].delivery_hour = r.hour
                             /\ trades[t].strategy = "ML_Daily_XGBoost"
                             /\ trades[t].quantity = 100
                             /\ trades[t].side \in {"buy", "sell"}
                       /\ \A t, u \in T : t # u => trades[t].side = Opposite(trades[u].side)

\* a converted run with a flat, a long and a short row
C7_Witness ==
    /\ pc = "done"
    /\ \A sg \in {-1, 0, 1} : \E p \in 1 .. Len(results_df) : results_df[p].signal = sg

(* C8: a long signal buys at da_price on the day-ahead leg and sells at
   id_price_h on the intraday leg; a short signal sells at da_price on the
   day-ahead leg and buys at id_price_h on the intraday leg. *)
C8_DirectionMapping ==
    pc = "done" =>
        \A p \in 1 .. Len(results_df) :
            LET r == results_df[p]
                da_side == IF r.signal = 1 THEN "buy" ELSE "sell"
            IN  r.signal # 0 =>
                  \A t \in TradesFor(r.label) :
                      IF LegOf(t) = "DA"
                      THEN trades[t].side = da_side /\ trades[t].price = r.da_price
                      ELSE /\ LegOf(t) = "ID"
                           /\ trades[t].side = Opposite(da_side)
                           /\ trades[t].price = r.id_price_h

\* a long and a short row, each with two different prices, both converted
C8_Witness ==
    /\ pc = "done"
    /\ \A sg \in {-1, 1} :
          \E p \in 1 .. Len(results_df) :
              /\ results_df[p].signal = sg
              /\ results_df[p].da_price # results_df[p].id_price_h
              /\ Cardinality(TradesFor(results_df[p].label)) = 2

(* C9: the intraday leg's timestamp is the day-ahead leg's timestamp plus
   exactly 2 hours (120 minutes). *)
C9_IntradayTwoHoursLater ==
    pc = "done" =>
        \A t, u \in 1 .. Len(trades) :
            (trades[t].trade_id.idx = trades[u].trade_id.idx
                /\ LegOf(t) = "DA" /\ LegOf(u) = "ID")
            => ParseIso(trades[u].timestamp) = ParseIso(trades[t].timestamp) + 120

\* a pair whose intraday leg falls on the calendar day after its day-ahead leg
C9_Witness ==
    /\ pc = "done"
    /\ \E t, u \in 1 .. Len(trades) :
          /\ trades[t].trade_id.idx = trades[u].trade_id.idx
          /\ LegOf(t) = "DA" /\ LegOf(u) = "ID"
          /\ trades[t].timestamp[3] # trades[u].timestamp[3]

(* C10, as claimed: both legs of every pair are timed exactly 1 day (1440
   minutes) before the timestamp of the observation. *)
C10_BothLegsOneDayBefore ==
    pc = "done" =>
        \A t \in 1 .. Len(trades) :
            ParseIso(trades[t].timestamp) = RowOf(t).timestamp - 1440

(* C10, amended: the day-ahead leg is timed exactly 1 day before the
   timestamp of the observation, and the intraday leg 2 hours after that,
   which is 22 hours before the observation. *)
C10_LegsAnchoredOneDayBefore ==
    pc = "done" =>
        \A t \in 1 .. Len(trades) :
            ParseIso(trades[t].timestamp) =
                RowOf(t).timestamp - 1440 + (IF LegOf(t) = "DA" THEN 0 ELSE 120)

\* a converted pair: a day-ahead leg and an intraday leg of one observation
C10_Witness ==
    /\ pc = "done"
    /\ \E t, u \in 1 .. Len(trades) :
          /\ RowOf(t) = RowOf(u)
          /\ LegOf(t) = "DA" /\ LegOf(u) = "ID"
          /\ ParseIso(trades[u].timestamp) = RowOf(u).timestamp - 22 * 60

-----------------------------------------------------------------------------
(* Properties of the whole of main(), checked under SpecMain *)

\* the positions at which the twin series differs from the series
ChangedPositions == { p \in 1 .. Len(df) : df[p] # df_twin[p] }

(* C2: for every scored day d, when the two series differ only in a row
   dated after d, every row of the feature frame dated d or earlier (the
   training rows and the scored rows of d) has the same feature values in
   both runs. *)
C2_FutureRowNoninterference ==
    \A e \in 1 .. Len(day_log) :
        (/\ day_log[e].done = "scored"
         /\ \A p \in ChangedPositions : df[p].date > day_log[e].day)
        => \A q \in 1 .. Len(df_ml) :
              df_ml[q].date <= day_log[e].day =>
                  q <= Len(df_ml_twin) /\ df_ml_twin[q] = df_ml[q]
-----------------------------------------------------------------------------
(* Uniqueness of trade_id, checked under Spec *)

\* pairs of distinct non-flat result rows with one timestamp and one signal
SameDecision ==
    { x \in (1 .. Len(results_df)) \X (1 .. Len(results_df)) :
        /\ x[1] < x[2]
        /\ results_df[x[1]].signal # 0
        /\ results_df[x[1]].signal = results_df[x[2]].signal
        /\ results_df[x[1]].timestamp = results_df[x[2]].timestamp }

(* C11: over one run of convert_to_trades the trade_ids of the emitted trades
   are pairwise distinct: N non-flat signal rows give 2N distinct trade_ids,
   also when rows share their decision timestamp. *)
C11_TradeIdsDistinct ==
    pc = "done" =>
        /\ \A t, u \in 1 .. Len(trades) : t # u => trades[t].trade_id # trades[u].trade_id
        /\ Cardinality({ trades[t].trade_id : t \in 1 .. Len(trades) })
              = 2 * Len(NonFlat(results_df))

\* a converted run with two rows of one signal decided at one timestamp
C11_Witness ==
    /\ pc = "done"
    /\ SameDecision # {}

-----------------------------------------------------------------------------
(* Properties of the reports and of the store, checked under SpecStore *)

\* positions of the rows of an hour
InHour(rows, hour) == { k \in 1 .. Len(rows) : rows[k].delivery_hour = hour }

\* sum of quantity * price, and of quantity, over the rows of a side at the
\* positions K
RECURSIVE SideValue(_, _, _)
SideValue(rows, side, K) ==
    IF K = {} THEN 0
    ELSE LET k == CHOOSE k \in K : TRUE
         IN  (IF rows[k].side = side THEN rows[k].quantity * rows[k].price ELSE 0)
                + SideValue(rows, side, K \ {k})
RECURSIVE SideQuantity(_, _, _)
SideQuantity(rows, side, K) ==
    IF K = {} THEN 0
    ELSE LET k == CHOOSE k \in K : TRUE
         IN  (IF rows[k].side = side THEN rows[k].quantity ELSE 0)
                + SideQuantity(rows, side, K \ {k})

Task3Made == hourly_data.trader_id # ""
Task4Made == hourly_metrics.trader_id # ""
Task1Made == pnl_total.strategy # ""
EpexOf(strategy_id) == { k \in 1 .. Len(epex) : epex[k].strategy = strategy_id }

\* the example of the sign convention: a buy of 10 MW at 50 and a sell of
\* 10 MW at 60, of one hour, and nothing else
IsExample(rows) ==
    /\ Len(rows) = 2
    /\ rows[1].delivery_hour = rows[2].delivery_hour
    /\ \E b, a \in 1 .. 2 :
          /\ rows[b].side = "buy" /\ rows[b].quantity = 10 /\ rows[b].price = 50
          /\ rows[a].side = "sell" /\ rows[a].quantity = 10 /\ rows[a].price = 60

(* C12: each aggregator returns, for the trades in its scope, the sum of
   quantity * price over the sells minus that sum over the buys:
   compute_hourly_pnl and compute_hourly_metrics for every delivery hour,
   compute_pnl for the strategy; a buy of 10 MW at 50 and a sell of 10 MW at
   60 in one hour give exactly 100. *)
C12_PnlSignConvention ==
    /\ Task3Made =>
          /\ \A h \in 0 .. 23 :
                hourly_data.hourly[h].pnl_eur =
                    SideValue(hourly_data.rows, "sell", InHour(hourly_data.rows, h))
                      - SideValue(hourly_data.rows, "buy", InHour(hourly_data.rows, h))
          /\ IsExample(hourly_data.rows) =>
                hourly_data.hourly[hourly_data.rows[1].delivery_hour].pnl_eur = 100
    /\ Task4Made =>
          /\ \A h \in 0 .. 23 :
                hourly_metrics.hourly[h + 1].PnL =
                    SideValue(hourly_metrics.rows, "sell", InHour(hourly_metrics.rows, h))
                      - SideValue(hourly_metrics.rows, "buy", InHour(hourly_metrics.rows, h))
          /\ IsExample(hourly_metrics.rows) =>
                hourly_metrics.hourly[hourly_metrics.rows[1].delivery_hour + 1].PnL = 100
    /\ Task1Made =>
          /\ pnl_total.value =
                SideValue(epex, "sell", EpexOf(pnl_total.strategy))
                  - SideValue(epex, "buy", EpexOf(pnl_total.strategy))
          /\ (\E b, a \in EpexOf(pnl_total.strategy) :
                /\ EpexOf(pnl_total.strategy) = {a, b}
                /\ epex[b].side = "buy" /\ epex[b].quantity = 10 /\ epex[b].price = 50
                /\ epex[a].side = "sell" /\ epex[a].quantity = 10 /\ epex[a].price = 60)
             => pnl_total.value = 100

\* all three aggregators have run on the example
C12_Witness ==
    /\ Task3Made /\ IsExample(hourly_data.rows)
    /\ Task4Made /\ IsExample(hourly_metrics.rows)
    /\ Task1Made /\ pnl_total.strategy = "s1" /\ pnl_total.value = 100

(* C13: the hourly aggregation returns an entry for each of the 24 delivery
   hours 0..23, for the empty trade set too, and an hour without a trade
   reports trade count 0, the four volumes 0 and PnL 0. *)
C13_AllHoursReported ==
    /\ Task3Made =>
          /\ DOMAIN hourly_data.hourly = 0 .. 23
          /\ \A h \in 0 .. 23 :
                InHour(hourly_data.rows, h) = {} =>
                    LET e == hourly_data.hourly[h]
                    IN  /\ e.num_trades = 0 /\ e.pnl_eur = 0
                        /\ e.buy_da_mw = 0 /\ e.sell_da_mw = 0
                        /\ e.buy_ida_mw = 0 /\ e.sell_ida_mw = 0
    /\ Task4Made =>
          /\ Len(hourly_metrics.hourly) = 24
          /\ \A h \in 0 .. 23 :
                LET e == hourly_metrics.hourly[h + 1]
                IN  /\ e.Hour = <<h, h + 1>>
                    /\ InHour(hourly_metrics.rows, h) = {} =>
                          /\ e.NumberOfTrades = 0 /\ e.PnL = 0
                          /\ e.BUY_DA = 0 /\ e.SELL_DA = 0
                          /\ e.BUY_IDA = 0 /\ e.SELL_IDA = 0

\* one report on the empty trade set, the other on a set that leaves hours
\* without a trade
C13_Witness ==
    /\ Task3Made /\ hourly_data.rows = <<>>
    /\ Task4Made /\ hourly_metrics.rows # <<>>

(* C14: for every delivery hour the four volume buckets partition the hour's
   traded quantity: buy_da + buy_ida is the total buy quantity and
   sell_da + sell_ida the total sell quantity of the hour, for every trade
   the store can hold. *)
C14_VolumeBucketsPartition ==
    /\ Task3Made =>
          \A h \in 0 .. 23 :
              LET e == hourly_data.hourly[h]
                  K == InHour(hourly_data.rows, h)
              IN  /\ e.buy_da_mw + e.buy_ida_mw = SideQuantity(hourly_data.rows, "buy", K)
                  /\ e.sell_da_mw + e.sell_ida_mw = SideQuantity(hourly_data.rows, "sell", K)
    /\ Task4Made =>
          \A h \in 0 .. 23 :
              LET e == hourly_metrics.hourly[h + 1]
                  K == InHour(hourly_metrics.rows, h)
              IN  /\ e.BUY_DA + e.BUY_IDA = SideQuantity(hourly_metrics.rows, "buy", K)
                  /\ e.SELL_DA + e.SELL_IDA = SideQuantity(hourly_metrics.rows, "sell", K)

(* C20: when a trade_id of the batch insert_trades_to_db writes is already
   stored, the step ends with an error and the table, the stored trade with
   that id included, is left as it was. *)
C20_CollisionAborts ==
    [][ ( /\ pc = "insert"
          /\ pc' # "insert"
          /\ \E t \in 1 .. Len(trades), k \in 1 .. Len(table) :
                trades[t].trade_id = table[k].trade_id )
        => ( /\ pc' = "crashed"
             /\ error' = "IntegrityError"
             /\ table' = table ) ]_vars

\* the run ended on a collision with a trade the API had stored
C20_Witness ==
    /\ pc = "crashed"
    /\ error = "IntegrityError"
    /\ \E t \in 1 .. Len(trades), k \in 1 .. Len(table) :
          /\ trades[t].trade_id = table[k].trade_id
          /\ table[k].strategy = "manual"

-----------------------------------------------------------------------------
(* Properties of run_strategy, checked under SpecStrategy *)

\* cumulative PnL up to day t, and the drawdown on day t
RECURSIVE SumOfSet(_, _)
SumOfSet(series, T) ==
    IF T = {} THEN 0
    ELSE LET t == CHOOSE t \in T : TRUE IN series[t] + SumOfSet(series, T \ {t})
Cumulative(t) == SumOfSet(daily_pnl, 1 .. t)
Peak(t) == CHOOSE m \in { Cumulative(u) : u \in 1 .. t } :
               \A u \in 1 .. t : Cumulative(u) <= m
DrawdownOn(t) == Cumulative(t) - Peak(t)

(* C15: the maximum drawdown run_strategy reports is the minimum over t of
   cumsum[t] - max(cumsum[0..t]) of the daily PnL series; for the daily
   series [100, -50, 30, -80, 200] it is -100. *)
C15_MaxDrawdown ==
    pc = "analysed" =>
        /\ \E t \in 1 .. Len(daily_pnl) : summary.max_drawdown = DrawdownOn(t)
        /\ \A t \in 1 .. Len(daily_pnl) : summary.max_drawdown <= DrawdownOn(t)
        /\ daily_pnl = <<100, -50, 30, -80, 200>> => summary.max_drawdown = -100

\* the example series has been analysed
C15_Witness ==
    /\ pc = "analysed"
    /\ daily_pnl = <<100, -50, 30, -80, 200>>
    /\ summary.max_drawdown = -100

\* whether a series never falls from one entry to the next
NonDecreasing(series) ==
    \A t \in 1 .. Len(series) - 1 : series[t] <= series[t + 1]

(* C16, as stated: the maximum drawdown of a non-empty daily PnL series is
   non-positive, and zero whenever the daily PnL series is monotonically
   non-decreasing. *)
C16_ZeroWhenDailyNonDecreasing ==
    pc = "analysed" =>
        /\ summary.max_drawdown <= 0
        /\ NonDecreasing(daily_pnl) => summary.max_drawdown = 0

(* C16, amended: the maximum drawdown of a non-empty daily PnL series is
   non-positive, and zero whenever the cumulative PnL series is monotonically
   non-decreasing, that is whenever no daily PnL after the first is
   negative. *)
C16_ZeroWhenCumulativeNonDecreasing ==
    pc = "analysed" =>
        /\ summary.max_drawdown <= 0
        /\ NonDecreasing([t \in 1 .. Len(daily_pnl) |-> Cumulative(t)])
              => summary.max_drawdown = 0

\* a series of several days, the first a loss, whose cumulative PnL never falls
C16_Witness ==
    /\ pc = "analysed"
    /\ Len(daily_pnl) >= 3
    /\ daily_pnl[1] < 0
    /\ NonDecreasing([t \in 1 .. Len(daily_pnl) |-> Cumulative(t)])
    /\ summary.max_drawdown = 0

-----------------------------------------------------------------------------
(* Properties of the time weights, checked under SpecWeights *)

\* a rescaled weight <<a, d>> that is a number of [0.5, 1.0]
InUnitHalf(w) == w[2] > 0 /\ 0 <= w[1] /\ w[1] <= w[2]
\* w <= v for two weights of one vector; no comparison with NaN holds
WeightLeq(w, v) == InUnitHalf(w) /\ InUnitHalf(v) /\ w[2] = v[2] /\ w[1] <= v[1]

(* C17: for any training set that reaches the training step every time weight
   lies in [0.5, 1.0], the weights are non-decreasing in chronological
   position, the oldest row has weight 0.5 and the most recent row the
   maximum weight 1.0. *)
C17_WeightsNormalized ==
    time_weights # <<>> =>
        LET n == Len(time_weights)
        IN  /\ \A p \in 1 .. n : InUnitHalf(time_weights[p])
            /\ \A p \in 1 .. n - 1 : WeightLeq(time_weights[p], time_weights[p + 1])
            /\ time_weights[1][1] = 0
            /\ time_weights[n][1] = time_weights[n][2]

-----------------------------------------------------------------------------
(* Skipped days of the walk-forward loop, checked under Spec *)

\* the days the loop has to evaluate: unique_days[min_train_days:]
DaysToEvaluate ==
    IF Len(unique_days) > min_train_days THEN Len(unique_days) - min_train_days ELSE 0

\* the loop of apply_daily_ml_strategy has been left
LoopOver == pc \notin {"start", "walk"}

(* C18: a day whose training set is below the minimum size, or that has no
   feature rows, contributes no signal row and no trade, and the loop still
   evaluates every later day: the iterations follow unique_days one by one
   from index min_train_days, a skip included, and when the loop is over
   every one of these days has been evaluated. *)
C18_SkipAndContinue ==
    /\ \A e \in 1 .. Len(day_log) :
          /\ e + min_train_days <= Len(unique_days)
          /\ day_log[e].day = unique_days[e + min_train_days]
          /\ day_log[e].done = "skipped" =>
                /\ \A f \in 1 .. Len(trades_list) :
                      \A r \in 1 .. Len(trades_list[f]) :
                          trades_list[f][r].date # day_log[e].day
                /\ \A r \in 1 .. Len(results_df) : results_df[r].date # day_log[e].day
                /\ \A t \in 1 .. Len(trades) :
                      trades[t].delivery_day # IsoDate(day_log[e].day)
    /\ LoopOver => Len(day_log) = DaysToEvaluate

\* a finished run in which a skipped day was followed by a day that was
\* scored and traded
C18_Witness ==
    /\ pc = "done"
    /\ \E e \in 1 .. Len(day_log) : \E l \in e + 1 .. Len(day_log) :
          /\ day_log[e].done = "skipped"
          /\ day_log[l].done = "scored"
          /\ \E t \in 1 .. Len(trades) :
                trades[t].delivery_day = IsoDate(day_log[l].day)

\* the dates a printed line carries: only the progress line of a scored
\* day is formatted with current_day
DatesOf(line) == IF line.msg = "Processed day" THEN {line.args[3]} ELSE {}

(* C19: every day the loop skips for data insufficiency (training set below
   the minimum, or no test-day rows) is logged with its date: some line of
   the output carries the date of the skipped day. *)
C19_SkippedDaysLogged ==
    \A e \in 1 .. Len(day_log) :
        day_log[e].done = "skipped" =>
            \E p \in 1 .. Len(printed) : day_log[e].day \in DatesOf(printed[p])

-----------------------------------------------------------------------------
(* Properties of the API and of the table's constraints, checked under      *)
(* SpecApi                                                                  *)

\* the step is a POST /trades
IsCreate == requests' = requests + 1

\* a body whose side or delivery_hour is outside the schema
OutsideSchema(trade) ==
    \/ trade.side \notin {"buy", "sell"}
    \/ trade.delivery_hour < 0
    \/ trade.delivery_hour > 23

(* C21: a trade whose side is not buy or sell, or whose delivery_hour is
   outside 0..23, is rejected at the store boundary (the API answers 422)
   and the stored trade set is unchanged; every stored trade has side buy
   or sell and a delivery_hour of 0..23. *)
C21_SchemaBoundary ==
    /\ [](\A k \in 1 .. Len(table) :
            /\ table[k].side \in {"buy", "sell"}
            /\ table[k].delivery_hour \in 0 .. 23)
    /\ [][ (IsCreate /\ OutsideSchema(request'.trade))
           => ( /\ response'.status = HTTP_422_UNPROCESSABLE_ENTITY
                /\ table' = table ) ]_vars

\* a body of each kind has been rejected while the table held trades: the
\* last one rejected has a delivery_hour of 24, the one before was stored
C21_Witness ==
    /\ requests = 2
    /\ request.trade.delivery_hour = 24
    /\ response.status = HTTP_422_UNPROCESSABLE_ENTITY
    /\ table # <<>>
    /\ \E k \in 1 .. Len(table) : table[k].strategy = "manual"

(* C25: every trade persisted in the trade store, through create_trade or
   through insert_trades_to_db, has a quantity strictly greater than 0. *)
C25_QuantityPositive ==
    \A k \in 1 .. Len(table) : table[k].quantity > 0

\* the trade_id a POST /trades is stored under
IdOf(req) ==
    IF req.trade.trade_id = NoId
    THEN generate_trade_id(req.trade.trader_id, req.now)
    ELSE req.trade.trade_id

\* the rows stored under a trade_id
RowsUnder(trade_id) == { k \in 1 .. Len(table) : table[k].trade_id = trade_id }

(* C26: after any sequence of create_trade and delete_trade requests the
   store never holds two trades with the same trade_id, and a create_trade
   whose trade_id is already stored is answered 409 Conflict and leaves the
   stored trades as they were. *)
C26_TradeIdUnique ==
    /\ [](\A k, l \in 1 .. Len(table) : table[k].trade_id = table[l].trade_id => k = l)
    /\ [][ ( /\ IsCreate
             /\ ~OutsideSchema(request'.trade)
             /\ RowsUnder(IdOf(request')) # {} )
           => ( /\ response'.status = HTTP_409_CONFLICT
                /\ table' = table ) ]_vars

\* a trade_id stored by the second program to write, posted again and
\* refused: the table holds trades of the API and of the converter
C26_Witness ==
    /\ response.status = HTTP_409_CONFLICT
    /\ requests = 2
    /\ Cardinality(RowsUnder(IdOf(request))) = 1
    /\ \E k \in 1 .. Len(table) : table[k].strategy = "manual"
    /\ \E k \in 1 .. Len(table) : table[k].strategy = strategy_name

-----------------------------------------------------------------------------
(* The two hourly aggregators compared, checked under SpecStore *)

(* C27: compute_hourly_pnl and compute_hourly_metrics agree: run on the same
   trades of one trader and one delivery day, they report for each hour
   0..23 the same trade count, the same buy-DA, sell-DA, buy-intraday and
   sell-intraday volumes and the same PnL. *)
C27_AggregatorsAgree ==
    ( /\ Task3Made /\ Task4Made
      /\ hourly_data.trader_id = hourly_metrics.trader_id
      /\ hourly_data.delivery_day = hourly_metrics.delivery_day
      /\ hourly_data.rows = hourly_metrics.rows )
    => \A h \in 0 .. 23 :
          LET a == hourly_data.hourly[h]
              b == hourly_metrics.hourly[h + 1]
          IN  /\ a.num_trades = b.NumberOfTrades
              /\ a.buy_da_mw = b.BUY_DA
              /\ a.sell_da_mw = b.SELL_DA
              /\ a.buy_ida_mw = b.BUY_IDA
              /\ a.sell_ida_mw = b.SELL_IDA
              /\ a.pnl_eur = b.PnL

-----------------------------------------------------------------------------
(* The converter's trades under the hourly aggregation, checked under Spec *)

\* the trades made for the result row with a label, in the order made
PairOf(label) == SelectSeq(trades, LAMBDA t : t.trade_id.idx = <<label>>)

\* what compute_hourly_pnl reports for the row's delivery hour when the
\* trader's trades of the day are the row's trades alone
PairEntry(r) == compute_hourly_pnl(PairOf(r.label), "strategy_ml_daily", r.date)[r.hour]

(* C28: for every non-flat signal the aggregated PnL of the two trades
   convert_to_trades makes is direction * (id_price_h - da_price) *
   position_size, direction being +1 for long and -1 for short: the
   position * price_diff * position_mw of run_strategy. *)
C28_PairPnlIsSpreadPnl ==
    pc = "done" =>
        \A p \in 1 .. Len(results_df) :
            LET r == results_df[p]
            IN  r.signal # 0 =>
                  /\ Len(PairOf(r.label)) = 2
                  /\ PairEntry(r).pnl_eur
                        = r.signal * (r.id_price_h - r.da_price) * position_size

\* a converted run with a long row that gains, a long row that loses and a
\* short row whose prices differ
C28_Witness ==
    /\ pc = "done"
    /\ \E p \in 1 .. Len(results_df) :
          results_df[p].signal = 1 /\ results_df[p].id_price_h > results_df[p].da_price
    /\ \E p \in 1 .. Len(results_df) :
          results_df[p].signal = 1 /\ results_df[p].id_price_h < results_df[p].da_price
    /\ \E p \in 1 .. Len(results_df) :
          results_df[p].signal = -1 /\ results_df[p].id_price_h # results_df[p].da_price

\* the days the converted rows deliver on
DeliveryDays == { results_df[p].date : p \in 1 .. Len(results_df) }

(* C29: for any trade set produced by convert_to_trades, in every
   (delivery_day, delivery_hour) the aggregated buy volume equals the
   aggregated sell volume (net position 0), the day-ahead volume
   buy_da + sell_da equals the intraday volume buy_ida + sell_ida, and the
   hour's trade count is even. *)
C29_HourlyLegsBalance ==
    pc = "done" =>
        \A d \in DeliveryDays :
            \E hourly \in {compute_hourly_pnl(trades, "strategy_ml_daily", d)} :
                \A h \in 0 .. 23 :
                    LET e == hourly[h]
                    IN  /\ e.buy_da_mw + e.buy_ida_mw = e.sell_da_mw + e.sell_ida_mw
                        /\ (e.sell_da_mw + e.sell_ida_mw) - (e.buy_da_mw + e.buy_ida_mw) = 0
                        /\ e.buy_da_mw + e.sell_da_mw = e.buy_ida_mw + e.sell_ida_mw
                        /\ e.num_trades % 2 = 0

\* a converted run with a long and a short row in one delivery hour of one
\* day, and a flat row
C29_Witness ==
    /\ pc = "done"
    /\ \E p, q \in 1 .. Len(results_df) :
          /\ results_df[p].date = results_df[q].date
          /\ results_df[p].hour = results_df[q].hour
          /\ results_df[p].signal = 1
          /\ results_df[q].signal = -1
    /\ \E p \in 1 .. Len(results_df) : results_df[p].signal = 0
    /\ Len(trades) >= 4

-----------------------------------------------------------------------------
(* The expanding window, checked under Spec *)

\* the step is one iteration of the loop
IsIteration == pc = "walk" /\ i' = i + 1

(* C30: on a series ordered by timestamp the loop visits the days in
   strictly increasing date order, and the training set of an iteration
   holds every row of the training set of the iteration before it, hence of
   every earlier one: no row leaves the training corpus as the loop
   advances. *)
C30_ExpandingWindow ==
    [][ IsIteration =>
          /\ current_day' > current_day
          /\ Len(train_data') >= Len(train_data)
          /\ \A p \in 1 .. Len(train_data) :
                \E q \in 1 .. Len(train_data') : train_data'[q] = train_data[p] ]_vars

\* the loop has moved on from a day to a later one with a larger training
\* set, the earlier one skipped or scored
C30_Witness ==
    /\ Len(day_log) >= 3
    /\ \E e \in 1 .. Len(day_log) - 1 :
          /\ day_log[e].day < day_log[e + 1].day
          /\ day_log[e].n_train > 0
          /\ day_log[e].n_train < day_log[e + 1].n_train
    /\ Len(train_data) = LastLogged.n_train
    /\ LastLogged.done = "scored"

-----------------------------------------------------------------------------
(* A run without a scored day, checked under Spec *)

\* no iteration has scored its day
NoDayScored == \A e \in 1 .. Len(day_log) : day_log[e].done # "scored"

(* C24: a walk-forward run in which no day is scored (the series has no more
   days than the warm-up count, or every active day is skipped) completes
   without error and yields an empty signal sequence and zero trades. *)
C24_NoScoredDayCompletes ==
    (LoopOver /\ NoDayScored) =>
        /\ pc # "crashed"
        /\ results_df = <<>>
        /\ trades = <<>>

-----------------------------------------------------------------------------
(* The lag features, checked under SpecMain *)

\* the loaded row with a 0-based index
Loaded(k) == df[k + 1]

\* the four lag columns of a feature row at a horizon of h days, h being the
\* l-th of 1, 2, 7, hold the values of the row 96 * h rows before it
LagsTakenFrom(r, l, h) ==
    LET src == Loaded(r.label - 96 * h)
    IN  /\ r.da_price_lag[l] = <<src.da_price, 1>>
        /\ r.id_price_lag[l] = <<src.id_price_h, 1>>
        /\ r.spread_lag[l] = <<src.id_price_h - src.da_price, 1>>
        /\ r.renewable_lag[l] = <<src.wind_da + src.pv_da, 1>>

(* C23: create_strategy_features computes the lag feature at horizon h days
   (h in {1, 2, 7}) of row i from row i - 96 * h and drops every row for
   which a lag feature is undefined, so no row with index below 672 of the
   ordered series is in the feature frame, in a training set or among the
   scored rows. *)
C23_LagFeatures ==
    pc # "features" =>
        /\ \A q \in 1 .. Len(df_ml) :
              /\ df_ml[q].label >= 672
              /\ LagsTakenFrom(df_ml[q], 1, 1)
              /\ LagsTakenFrom(df_ml[q], 2, 2)
              /\ LagsTakenFrom(df_ml[q], 3, 7)
        /\ \A p \in 1 .. Len(train_data) : train_data[p].label >= 672
        /\ \A p \in 1 .. Len(test_data) : test_data[p].label >= 672

\* the feature frame starts at row 672 of a longer series, and a day has
\* been scored on a training set that starts there
C23_Witness ==
    /\ pc = "walk"
    /\ Len(df) > 672
    /\ df_ml # <<>>
    /\ df_ml[1].label = 672
    /\ train_data # <<>>
    /\ train_data[1].label = 672
    /\ test_data # <<>>
    /\ day_log # <<>>
    /\ LastLogged.done = "scored"

-----------------------------------------------------------------------------
(* Two runs on one data file, checked under SpecTwice *)

(* C22: two runs of the feature, forecast and conversion steps on the same
   historical dataset, with the same seed, decay and thresholds, produce
   the same signal sequence and the same trade records: the same trade_ids,
   sides, prices and timestamps in the same order. *)
C22_RunsAgree ==
    (first_run.made /\ pc \in {"convert", "done"}) =>
        /\ Column(results_df, "signal") = Column(first_run.results_df, "signal")
        /\ results_df = first_run.results_df
        /\ pc = "done" => trades = first_run.trades

\* a second run has ended after a first one that scored a flat and a long
\* row and traded
C22_Witness ==
    /\ first_run.made
    /\ pc = "done"
    /\ trades # <<>>
    /\ first_run.trades # <<>>
    /\ \E p \in 1 .. Len(first_run.results_df) : first_run.results_df[p].signal = 1
    /\ \E p \in 1 .. Len(first_run.results_df) : first_run.results_df[p].signal = 0

====
